---- MODULE Spec2Model ----
(***************************************************************************)
(* Process / thread lifecycle and signal core of starry-next.              *)
(*                                                                         *)
(* Every task (thread) of the kernel is a small state machine: pc[t] is    *)
(* the place in the kernel code the task has reached, loc[t] its local     *)
(* variables.  One action is one critical section (one lock scope) or one  *)
(* atomic load/store of the source, so that the interleavings of the       *)
(* source are the interleavings of the model.  A kernel panic (unwrap of   *)
(* None, index out of range) halts the machine: panicked = TRUE.           *)
(***************************************************************************)
EXTENDS Integers, Sequences, FiniteSets, TLC

\* ------------------------------------------------------------------ bounds
\* Largest task id the scheduler hands out (ids are RootPid+1 .. MaxId).
MaxId == 4

\* Largest task id of the reaping specification.
ReapMaxId == 3

\* Largest task id of the signal specification.
SigMaxId == 3

\* ------------------------------------------------------- program constants
\* pid of the root process children are reparented to.
RootPid == 1

\* Task ids of user tasks; a process's pid is the id of its main thread.
Ids == (RootPid + 1)..MaxId

\* pid of the first user process.
FirstPid == RootPid + 1

\* Exit codes user programs pass to exit.
ExitCodes == {0, 7}

\* Values a user program stores into memory.
Bytes == {0, 1}

\* clone flags that decide a branch of clone_proc.
CloneFlagNames == {"CLONE_THREAD", "CLONE_VM", "CLONE_PARENT"}

VARIABLES
    nextId,     \* next task id of the scheduler
    registry,   \* PID2PROC: the pids registered
    ppid,       \* Process.ppid
    children,   \* Process.children (a sequence of pids)
    threads,    \* Process.threads (the set of thread ids in the table)
    sigmods,    \* Process.signal_module: tid -> SignalModule
    aspace,     \* Process.aspace: the address-space object referred to
    exit_code,  \* Process.exit_code
    is_exited,  \* Process.is_exited
    mem,        \* contents of each address-space object (one byte)
    heap_current, \* Process.heap_current
    ustack,     \* task -> the signal records the kernel wrote on its user stack
    proc,       \* task -> pid of the process it belongs to
    tf,         \* task -> live trap frame on its kernel stack
    pc,         \* task -> position in the kernel code
    loc,        \* task -> local variables of the running syscall
    panicked,   \* the kernel has panicked
    reaped,     \* history: pids a process's wait calls have returned
    origin,     \* history: the creator of each cloned process, and CLONE_VM
    sent,       \* history: signals sent to a task and not yet dispatched
    wantMask,   \* history: the mask a task has asked for with sigprocmask
    before,     \* history: a task's trap frame before its last handler entry
    faulted,    \* history: a dispatch pass ended the task for a nested fault
    probe       \* arguments and results of a function applied on its own

vars == <<nextId, registry, ppid, children, threads, sigmods, aspace,
          exit_code, is_exited, mem, heap_current, ustack, proc, tf, pc, loc,
          panicked, reaped, origin, sent, wantMask, before, faulted, probe>>

\* The history variables other than reaped.
hist == <<origin, sent, wantMask, before, faulted, probe>>

\* The history variables of the signal delivery, and the probe.
sigHist == <<before, faulted, probe>>

procVars == <<registry, ppid, children, threads, sigmods, aspace, exit_code,
              is_exited>>

\* No function is being applied on its own.
NoProbe == [step |-> "idle"]

\* ------------------------------------------------------------ signal sets
\* Signal numbers (signal_no.rs) and the size of the signal table.
MAX_SIG_NUM == 64
SIGBUS == 7
SIGKILL == 9
SIGSEGV == 11
SIGCHLD == 17
SIGCONT == 18
SIGSTOP == 19
SIGTSTP == 20
SIGTTIN == 21
SIGTTOU == 22
SIGWINCH == 28

\* The result of a search that finds no signal (Option::None).
NoSig == 0

\* Sentinel handler addresses.
SIG_DFL == 0
SIG_IGN == 1

\* sigsetsize accepted by sigprocmask.
SIGSET_SIZE_IN_BYTE == 8

\* Signals the model's users send and mask.  A mask or pending word is the
\* set of the signal numbers whose bit (number - 1) is set.
Sigs == {SIGKILL, SIGSEGV, SIGCHLD, SIGSTOP}

SetMin(S) == CHOOSE x \in S : \A y \in S : x <= y

\* SignalSet::new
NewSignalSet == [mask |-> {}, pending |-> {}, info |-> <<>>]

\* SignalSet::find_sig: walk the pending bits from the lowest; the first one
\* that is not masked, or is SIGKILL or SIGSTOP, is the answer.
RECURSIVE FindSigFrom(_, _)
FindSigFrom(pending, mask) ==
    IF pending = {} THEN NoSig
    ELSE LET pos == SetMin(pending) IN
         IF pos \notin mask \/ pos = SIGKILL \/ pos = SIGSTOP
         THEN pos
         ELSE FindSigFrom(pending \ {pos}, mask)

find_sig(ss) == FindSigFrom(ss.pending, ss.mask)

\* SignalSet::get_one_sig: the set after the pop (the found bit cleared).
get_one_sig(ss) ==
    LET sig == find_sig(ss) IN
    IF sig # NoSig THEN [ss EXCEPT !.pending = @ \ {sig}] ELSE ss

\* Option<SigInfo> of a send: NoInfo is None.
NoInfo == [present |-> FALSE, val |-> 0]

\* SignalSet::try_add_sig
try_add_sig(ss, sig_num, info) ==
    LET marked == [ss EXCEPT !.mask = @ \cup {sig_num}] IN
    IF info.present
    THEN [marked EXCEPT !.info =
            [k \in DOMAIN ss.info \cup {sig_num} |->
                IF k = sig_num THEN info ELSE ss.info[k]]]
    ELSE marked

\* SigAction::default
DefaultAction == [sa_handler |-> SIG_DFL, sa_flags |-> {}, sa_restorer |-> 0,
                  sa_mask |-> {}]

\* SignalHandler::new: 64 default actions.  The table is kept as the map of
\* the entries that differ from the default.
NewSignalHandler == <<>>

\* SignalHandler::get_action: handlers[sig_num - 1]
get_action(handler, sig_num) ==
    IF sig_num \in DOMAIN handler THEN handler[sig_num] ELSE DefaultAction

\* Option<TrapFrame>::None
NoFrame == [some |-> FALSE]

SomeFrame(f) == [some |-> TRUE, frame |-> f]

\* SignalStack::default (ucontext): no alternate stack.
SS_DISABLE == 2

DefaultSignalStack == [sp |-> 0, flags |-> SS_DISABLE, size |-> 0]

\* SignalModule::new(None)
NewSignalModule ==
    [sig_info |-> FALSE, last_trap_frame |-> NoFrame,
     sig_handler |-> NewSignalHandler, sig_set |-> NewSignalSet,
     stack |-> DefaultSignalStack]

\* SignalDefault::get_action
DefaultDisposition(sig) ==
    CASE sig \in {SIGCHLD, SIGWINCH} -> "Ignore"
      [] sig \in {SIGSTOP, SIGTSTP, SIGTTIN, SIGTTOU} -> "Stop"
      [] sig = SIGCONT -> "Cont"
      [] sig \in {6, SIGBUS, 8, 4, 3, SIGSEGV, 24, 25, 31} -> "Core"
      [] OTHER -> "Terminate"


\* ------------------------------------------------------------ trap frames
\* The trap frame of the first user task when it enters user space.
BootFrame == [sepc |-> 4096, a0 |-> 0, a1 |-> 0, a2 |-> 0, sp |-> 65536,
              ra |-> 0]

\* A child frame that keeps the caller's stack pointer.
ChildFrameOwnStack(f, stack) == [f EXCEPT !.a0 = 0, !.sepc = @ + 4]

\* clone_proc / clone_thread: the new task's frame is the caller's with the
\* result register cleared, the pc moved past the ecall and, when a stack is
\* given (sys_clone: user_stack # 0), the stack pointer replaced.
ChildFrame(f, stack) ==
    [f EXCEPT !.a0 = 0, !.sepc = @ + 4,
              !.sp = IF stack # 0 THEN stack ELSE @]

\* ------------------------------------------------------------- exit status
\* exit_code << 8 on an i32 (the bits shifted out are lost, the sign is bit 31).
Shl8(code) ==
    LET low == code % 16777216 IN
    IF low >= 8388608 THEN (low - 16777216) * 256 ELSE low * 256

\* What the kernel last wrote on a task's user stack for a handler: where,
\* the SigInfo and the SignalUserContext (pc and mask).  Nothing at first.
NoSigFrame == [at |-> 0, info |-> NoInfo, uc_pc |-> 0, uc_mask |-> {}]

\* ------------------------------------------------------------------ tasks
\* Local variables of a task outside any syscall (again and found are
\* history: the wait asks for a pid reaped before, the child the scan saw;
\* guards are the MutexGuards alive across steps).
NoLoc == [op |-> "", code |-> 0, target |-> 0, idx |-> 0, child |-> 0,
          pp |-> 0, flags |-> {}, stack |-> 0, sig |-> 0, then |-> "",
          ret |-> 0, err |-> "", out |-> 0, wrote |-> FALSE, old |-> {},
          info |-> NoInfo, again |-> FALSE, found |-> 0, guards |-> {},
          addr |-> 0, brk |-> 0]

\* History record of an id that clone_proc has not made a process.
NoOrigin == [creator |-> 0, vm |-> FALSE]

Main(p) == p

Live(t) == pc[t] \notin {"none", "dead"}

IsMainThread(p, t) == t = p

\* Process::state
Exited(p) == is_exited[p]

\* Remove the element at 0-based index i of a Vec (0 <= i < Len).
VecRemove(v, i) == SubSeq(v, 1, i) \o SubSeq(v, i + 2, Len(v))

\* Index (0-based) of the first element of v that is in hits, or -1.
FirstIndex(v, hits) ==
    IF \E i \in 1..Len(v) : v[i] \in hits
    THEN SetMin({i \in 1..Len(v) : v[i] \in hits}) - 1
    ELSE -1

\* BTreeMap::remove of one key.
MapRemove(m, k) == [x \in DOMAIN m \ {k} |-> m[x]]

\* BTreeMap::insert of one key.
MapInsert(m, k, v) == [x \in DOMAIN m \cup {k} |-> IF x = k THEN v ELSE m[x]]

\* The bottom of the heap, where the break of a new process is.
BRK_BOTTOM == 1073741824

\* The state after the bootstrap (Process::new for the first user process, its
\* main thread added): everything else is still to be created.
Init ==
    /\ nextId = FirstPid + 1
    /\ registry = {FirstPid}
    /\ ppid = [p \in Ids |-> IF p = FirstPid THEN RootPid ELSE 0]
    /\ children = [p \in Ids |-> <<>>]
    /\ threads = [p \in Ids |-> IF p = FirstPid THEN {FirstPid} ELSE {}]
    /\ sigmods = [p \in Ids |->
                    IF p = FirstPid
                    THEN MapInsert(<<>>, FirstPid, NewSignalModule) ELSE <<>>]
    /\ aspace = [p \in Ids |-> IF p = FirstPid THEN FirstPid ELSE 0]
    /\ exit_code = [p \in Ids |-> 0]
    /\ is_exited = [p \in Ids |-> FALSE]
    /\ mem = [a \in Ids |-> 0]
    /\ heap_current = [p \in Ids |-> BRK_BOTTOM]
    /\ ustack = [t \in Ids |-> NoSigFrame]
    /\ proc = [t \in Ids |-> IF t = FirstPid THEN FirstPid ELSE 0]
    /\ tf = [t \in Ids |-> BootFrame]
    /\ pc = [t \in Ids |-> IF t = FirstPid THEN "user" ELSE "none"]
    /\ loc = [t \in Ids |-> NoLoc]
    /\ panicked = FALSE
    /\ reaped = [p \in Ids |-> {}]
    /\ origin = [p \in Ids |-> NoOrigin]
    /\ sent = [t \in Ids |-> {}]
    /\ wantMask = [t \in Ids |-> {}]
    /\ before = [t \in Ids |-> NoFrame]
    /\ faulted = [t \in Ids |-> FALSE]
    /\ probe = NoProbe

\* A kernel panic: the machine stops.
Panic == panicked' = TRUE

\* ------------------------------------------------------------ exit
\* sys_exit(status): the task enters Process::exit_thread.
EnterExit(t, status) ==
    /\ pc' = [pc EXCEPT ![t] = "exit_thread"]
    /\ loc' = [loc EXCEPT ![t] = [NoLoc EXCEPT !.op = "exit", !.code = status]]

SysExit(t, status) ==
    /\ ~panicked
    /\ pc[t] = "user"
    /\ EnterExit(t, status)
    /\ UNCHANGED <<nextId, procVars, mem, heap_current, ustack, proc, tf, panicked, reaped,
                   hist>>

\* exit_thread, first critical section: drop the thread's Signal Module; the
\* main thread goes on to Process::exit.
ExitThreadModule(t) ==
    /\ ~panicked
    /\ pc[t] = "exit_thread"
    /\ sigmods' = [sigmods EXCEPT ![proc[t]] = MapRemove(@, t)]
    /\ pc' = [pc EXCEPT ![t] = IF IsMainThread(proc[t], t)
                               THEN "exit_reparent" ELSE "exit_remove"]
    /\ UNCHANGED <<nextId, registry, ppid, children, threads, aspace,
                   exit_code, is_exited, mem, heap_current, ustack, proc, tf, loc, panicked, reaped, hist>>

\* exit_thread of a thread that is not the main thread: threads.remove(tid)
\* .unwrap().
ExitThreadRemove(t) ==
    /\ ~panicked
    /\ pc[t] = "exit_remove"
    /\ IF t \in threads[proc[t]]
       THEN /\ threads' = [threads EXCEPT ![proc[t]] = @ \ {t}]
            /\ pc' = [pc EXCEPT ![t] = "dead"]
            /\ loc' = [loc EXCEPT ![t] = NoLoc]
            /\ UNCHANGED panicked
       ELSE /\ Panic
            /\ UNCHANGED <<threads, pc, loc>>
    /\ UNCHANGED <<nextId, registry, ppid, children, sigmods, aspace,
                   exit_code, is_exited, mem, heap_current, ustack, proc, tf, reaped, hist>>

\* Process::exit: every child's ppid becomes 1 (under the children lock).
ExitReparent(t) ==
    /\ ~panicked
    /\ pc[t] = "exit_reparent"
    /\ ppid' = [c \in Ids |->
                  IF \E i \in 1..Len(children[proc[t]]) :
                        children[proc[t]][i] = c
                  THEN RootPid ELSE ppid[c]]
    /\ pc' = [pc EXCEPT ![t] = "exit_mark"]
    /\ UNCHANGED <<nextId, registry, children, threads, sigmods, aspace,
                   exit_code, is_exited, mem, heap_current, ustack, proc, tf, loc, panicked, reaped, hist>>

\* Process::exit: is_exited.store(true).
ExitMark(t) ==
    /\ ~panicked
    /\ pc[t] = "exit_mark"
    /\ is_exited' = [is_exited EXCEPT ![proc[t]] = TRUE]
    /\ pc' = [pc EXCEPT ![t] = "exit_barrier"]
    /\ UNCHANGED <<nextId, registry, ppid, children, threads, sigmods, aspace,
                   exit_code, mem, heap_current, ustack, proc, tf, loc, panicked, reaped, hist>>

\* Process::exit: one turn of `while self.threads.lock().len() > 1
\* { yield_now() }`.
ExitBarrier(t) ==
    /\ ~panicked
    /\ pc[t] = "exit_barrier"
    /\ pc' = [pc EXCEPT ![t] = IF Cardinality(threads[proc[t]]) > 1
                               THEN "exit_barrier" ELSE "exit_store"]
    /\ UNCHANGED <<nextId, procVars, mem, heap_current, ustack, proc, tf, loc, panicked,
                   reaped, hist>>

\* Process::exit: exit_code.store(code).
ExitStore(t) ==
    /\ ~panicked
    /\ pc[t] = "exit_store"
    /\ exit_code' = [exit_code EXCEPT ![proc[t]] = loc[t].code]
    /\ pc' = [pc EXCEPT ![t] = "exit_unreg"]
    /\ UNCHANGED <<nextId, registry, ppid, children, threads, sigmods, aspace,
                   is_exited, mem, heap_current, ustack, proc, tf, loc, panicked, reaped, hist>>

\* Process::exit: remove_process(self.pid); then axtask::exit ends the task.
ExitUnregister(t) ==
    /\ ~panicked
    /\ pc[t] = "exit_unreg"
    /\ registry' = registry \ {proc[t]}
    /\ pc' = [pc EXCEPT ![t] = "dead"]
    /\ loc' = [loc EXCEPT ![t] = NoLoc]
    /\ UNCHANGED <<nextId, ppid, children, threads, sigmods, aspace,
                   exit_code, is_exited, mem, heap_current, ustack, proc, tf, panicked, reaped, hist>>


\* ------------------------------------------------------------ clone
\* sys_clone -> Process::clone_proc.  The entry step takes a fresh task id
\* (new_task()) and, for CLONE_PARENT, loads the caller's ppid.  With
\* CLONE_THREAD (clone_thread) the new task is built and spawned at once.
SysClone(t, flags, stack) ==
    /\ ~panicked
    /\ pc[t] = "user"
    /\ nextId <= MaxId
    /\ LET n == nextId
           p == proc[t]
       IN
       /\ nextId' = n + 1
       /\ IF "CLONE_THREAD" \in flags
          THEN /\ loc' = [loc EXCEPT ![t] =
                    [NoLoc EXCEPT !.op = "clone_thread", !.child = n,
                                  !.target = p]]
               /\ pc' = [pc EXCEPT ![t] = "add_module", ![n] = "user"]
               /\ proc' = [proc EXCEPT ![n] = p]
               /\ tf' = [tf EXCEPT ![n] = ChildFrame(tf[t], stack)]
               /\ UNCHANGED origin
          ELSE /\ loc' = [loc EXCEPT ![t] =
                    [NoLoc EXCEPT !.op = "clone_proc", !.child = n,
                                  !.target = n, !.flags = flags,
                                  !.stack = stack,
                                  !.pp = IF "CLONE_PARENT" \in flags
                                         THEN ppid[p] ELSE p]]
               /\ pc' = [pc EXCEPT ![t] = "clone_register"]
               /\ origin' = [origin EXCEPT ![n] =
                    [creator |-> p, vm |-> "CLONE_VM" \in flags]]
               /\ UNCHANGED <<proc, tf>>
    /\ UNCHANGED <<procVars, mem, heap_current, ustack, panicked, reaped, sent, wantMask,
                   sigHist>>

\* The address space of a process made by clone_proc: the caller's own
\* object, with or without CLONE_VM (both branches clone the reference).
CloneAspace(p, flags) ==
    IF "CLONE_VM" \in flags THEN aspace[p] ELSE aspace[p]

\* clone_proc: new_process(ppid, pid, aspace) builds the Process
\* (Process::new) and inserts it into the registry.
CloneRegister(t) ==
    /\ ~panicked
    /\ pc[t] = "clone_register"
    /\ LET n == loc[t].child IN
       /\ registry' = registry \cup {n}
       /\ ppid' = [ppid EXCEPT ![n] = loc[t].pp]
       /\ aspace' = [aspace EXCEPT ![n] = CloneAspace(proc[t], loc[t].flags)]
       /\ children' = [children EXCEPT ![n] = <<>>]
       /\ threads' = [threads EXCEPT ![n] = {}]
       /\ sigmods' = [sigmods EXCEPT ![n] = <<>>]
       /\ exit_code' = [exit_code EXCEPT ![n] = 0]
       /\ is_exited' = [is_exited EXCEPT ![n] = FALSE]
    /\ pc' = [pc EXCEPT ![t] = "clone_push"]
    /\ UNCHANGED <<nextId, mem, heap_current, ustack, proc, tf, loc, panicked, reaped, hist>>

\* The children list the new process is pushed to: with CLONE_PARENT the
\* list of get_process(ppid), when that process is registered; otherwise the
\* caller's own.  0 stands for no list.
ClonePushTarget(t) ==
    IF "CLONE_PARENT" \in loc[t].flags
    THEN IF loc[t].pp \in registry THEN loc[t].pp ELSE 0
    ELSE proc[t]

ClonePush(t) ==
    /\ ~panicked
    /\ pc[t] = "clone_push"
    /\ LET q == ClonePushTarget(t) IN
       children' = IF q = 0 THEN children
                   ELSE [children EXCEPT ![q] = Append(@, loc[t].child)]
    /\ pc' = [pc EXCEPT ![t] = "clone_spawn"]
    /\ UNCHANGED <<nextId, registry, ppid, threads, sigmods, aspace,
                   exit_code, is_exited, mem, heap_current, ustack, proc, tf, loc, panicked, reaped, hist>>

\* clone_proc: the new task gets its frame and its process and is handed to
\* the scheduler (axtask::spawn_task): from here on it runs.
CloneSpawn(t) ==
    /\ ~panicked
    /\ pc[t] = "clone_spawn"
    /\ LET n == loc[t].child IN
       /\ tf' = [tf EXCEPT ![n] = ChildFrame(tf[t], loc[t].stack)]
       /\ proc' = [proc EXCEPT ![n] = n]
       /\ pc' = [pc EXCEPT ![t] = "add_module", ![n] = "user"]
    /\ UNCHANGED <<nextId, procVars, mem, heap_current, ustack, loc, panicked, reaped, hist>>

\* Process::add_thread, first lock: signal_module.insert(tid, new module).
AddThreadModule(t) ==
    /\ ~panicked
    /\ pc[t] = "add_module"
    /\ sigmods' = [sigmods EXCEPT ![loc[t].target] =
                      MapInsert(@, loc[t].child, NewSignalModule)]
    /\ pc' = [pc EXCEPT ![t] = "add_thread"]
    /\ UNCHANGED <<nextId, registry, ppid, children, threads, aspace,
                   exit_code, is_exited, mem, heap_current, ustack, proc, tf, loc, panicked, reaped, hist>>

\* The value clone returns: clone_proc's Ok(pid) of the new process,
\* clone_thread's Ok(proc.pid).
CloneResult(t) ==
    IF loc[t].op = "clone_thread" THEN proc[t] ELSE loc[t].child

\* Process::add_thread, second lock: threads.insert(tid, thread); then the
\* clone returns.
AddThreadTable(t) ==
    /\ ~panicked
    /\ pc[t] = "add_thread"
    /\ threads' = [threads EXCEPT ![loc[t].target] = @ \cup {loc[t].child}]
    /\ loc' = [loc EXCEPT ![t].ret = CloneResult(t)]
    /\ pc' = [pc EXCEPT ![t] = "ret"]
    /\ UNCHANGED <<nextId, registry, ppid, children, sigmods, aspace,
                   exit_code, is_exited, mem, heap_current, ustack, proc, tf, panicked, reaped, hist>>

\* ------------------------------------------------------------ wait
\* sys_wait4(pid, status_ptr, options): enter the retry loop around wait_pid.
SysWait(t, pid) ==
    /\ ~panicked
    /\ pc[t] = "user"
    /\ loc' = [loc EXCEPT ![t] =
          [NoLoc EXCEPT !.op = "wait", !.target = pid,
                        !.again = pid \in reaped[proc[t]]]]
    /\ pc' = [pc EXCEPT ![t] = IF pid <= 0 THEN "waitany_scan" ELSE "wait_find"]
    /\ UNCHANGED <<nextId, procVars, mem, heap_current, ustack, proc, tf, panicked, reaped,
                   hist>>

\* The wait returns NotExist: sys_wait4 answers ECHILD.
WaitNotExist(t) ==
    /\ loc' = [loc EXCEPT ![t].err = "ECHILD"]
    /\ pc' = [pc EXCEPT ![t] = "ret"]

\* wait_pid: find the child with the pid in the children list (one lock
\* scope); its index and a reference to it are kept.
WaitFind(t) ==
    /\ ~panicked
    /\ pc[t] = "wait_find"
    /\ LET kids == children[proc[t]]
           i == FirstIndex(kids, {loc[t].target})
       IN
       IF i < 0
       THEN WaitNotExist(t)
       ELSE /\ loc' = [loc EXCEPT ![t].idx = i, ![t].child = kids[i + 1]]
            /\ pc' = [pc EXCEPT ![t] = "wait_state"]
    /\ UNCHANGED <<nextId, procVars, mem, heap_current, ustack, proc, tf, panicked, reaped,
                   hist>>

\* sys_wait4 on Running: yield_now(), then wait_pid is called again.
WaitYield(t) ==
    /\ ~panicked
    /\ pc[t] = "wait_yield"
    /\ pc' = [pc EXCEPT ![t] = IF loc[t].target <= 0
                               THEN "waitany_scan" ELSE "wait_find"]
    /\ UNCHANGED <<nextId, procVars, mem, heap_current, ustack, proc, tf, loc, panicked,
                   reaped, hist>>

\* wait_pid: child.state(); Running is returned to sys_wait4.
WaitState(t) ==
    /\ ~panicked
    /\ pc[t] = "wait_state"
    /\ pc' = [pc EXCEPT ![t] = IF Exited(loc[t].child)
                               THEN "wait_code" ELSE "wait_yield"]
    /\ UNCHANGED <<nextId, procVars, mem, heap_current, ustack, proc, tf, loc, panicked,
                   reaped, hist>>

\* wait_pid: child.exit_code() is read and exit_code << 8 stored through the
\* caller's pointer.
WaitCode(t) ==
    /\ ~panicked
    /\ pc[t] = "wait_code"
    /\ loc' = [loc EXCEPT ![t].code = exit_code[loc[t].child],
                          ![t].out = Shl8(exit_code[loc[t].child]),
                          ![t].wrote = TRUE]
    /\ pc' = [pc EXCEPT ![t] = "wait_remove"]
    /\ UNCHANGED <<nextId, procVars, mem, heap_current, ustack, proc, tf, panicked, reaped,
                   hist>>

\* A reap that answers with the child at the index and leaves it in the list.
RemoveChildAtKeep(t, next) ==
    LET kids == children[proc[t]] IN
    IF loc[t].idx < Len(kids)
    THEN /\ children' = children
         /\ loc' = [loc EXCEPT ![t].child = kids[loc[t].idx + 1]]
         /\ pc' = [pc EXCEPT ![t] = next]
         /\ UNCHANGED panicked
    ELSE /\ Panic
         /\ UNCHANGED <<children, loc, pc>>

\* children.lock().remove(index): panics when the index is past the end;
\* the element removed is whatever is at the index now.
RemoveChildAt(t, next) ==
    LET kids == children[proc[t]] IN
    IF loc[t].idx < Len(kids)
    THEN /\ children' = [children EXCEPT ![proc[t]] = VecRemove(kids, loc[t].idx)]
         /\ loc' = [loc EXCEPT ![t].child = kids[loc[t].idx + 1]]
         /\ pc' = [pc EXCEPT ![t] = next]
         /\ UNCHANGED panicked
    ELSE /\ Panic
         /\ UNCHANGED <<children, loc, pc>>

\* wait_pid: proc.children.lock().remove(loc).
WaitRemove(t) ==
    /\ ~panicked
    /\ pc[t] = "wait_remove"
    /\ RemoveChildAt(t, "wait_time")
    /\ UNCHANGED <<nextId, registry, ppid, threads, sigmods, aspace,
                   exit_code, is_exited, mem, heap_current, ustack, proc, tf, reaped, hist>>

\* wait_pid: add_child_time(child_task.main_thread()) indexes the removed
\* child's thread table by its pid; then Ok(child_task.pid).
WaitTime(t) ==
    /\ ~panicked
    /\ pc[t] = "wait_time"
    /\ IF Main(loc[t].child) \in threads[loc[t].child]
       THEN /\ loc' = [loc EXCEPT ![t].ret = loc[t].child]
            /\ reaped' = [reaped EXCEPT ![proc[t]] = @ \cup {loc[t].child}]
            /\ pc' = [pc EXCEPT ![t] = "ret"]
            /\ UNCHANGED panicked
       ELSE /\ Panic
            /\ UNCHANGED <<loc, reaped, pc>>
    /\ UNCHANGED <<nextId, procVars, mem, heap_current, ustack, proc, tf, hist>>

\* wait_pid_negative: scan the children in order (one lock scope) for the
\* first that is exited.  Running goes back to sys_wait4.
WaitAnyScan(t) ==
    /\ ~panicked
    /\ pc[t] = "waitany_scan"
    /\ LET kids == children[proc[t]]
           i == FirstIndex(kids, {c \in Ids : Exited(c)})
       IN
       IF Len(kids) = 0
       THEN WaitNotExist(t)
       ELSE IF i < 0
       THEN /\ pc' = [pc EXCEPT ![t] = "wait_yield"]
            /\ UNCHANGED loc
       ELSE /\ loc' = [loc EXCEPT ![t].idx = i, ![t].found = kids[i + 1]]
            /\ pc' = [pc EXCEPT ![t] = "waitany_remove"]
    /\ UNCHANGED <<nextId, procVars, mem, heap_current, ustack, proc, tf, panicked, reaped,
                   hist>>

\* wait_pid_negative: proc.children.lock().remove(child_id).
WaitAnyRemove(t) ==
    /\ ~panicked
    /\ pc[t] = "waitany_remove"
    /\ RemoveChildAt(t, "waitany_time")
    /\ UNCHANGED <<nextId, registry, ppid, threads, sigmods, aspace,
                   exit_code, is_exited, mem, heap_current, ustack, proc, tf, reaped, hist>>

\* wait_pid_negative: add_child_time(child.main_thread()).
WaitAnyTime(t) ==
    /\ ~panicked
    /\ pc[t] = "waitany_time"
    /\ IF Main(loc[t].child) \in threads[loc[t].child]
       THEN /\ pc' = [pc EXCEPT ![t] = "waitany_code"]
            /\ UNCHANGED panicked
       ELSE /\ Panic
            /\ UNCHANGED pc
    /\ UNCHANGED <<nextId, procVars, mem, heap_current, ustack, proc, tf, loc, reaped, hist>>

\* wait_pid_negative: child.exit_code() << 8 is stored through the pointer and
\* Ok(child.pid) returned.
WaitAnyCode(t) ==
    /\ ~panicked
    /\ pc[t] = "waitany_code"
    /\ loc' = [loc EXCEPT ![t].code = exit_code[loc[t].child],
                          ![t].out = Shl8(exit_code[loc[t].child]),
                          ![t].wrote = TRUE,
                          ![t].ret = loc[t].child]
    /\ reaped' = [reaped EXCEPT ![proc[t]] = @ \cup {loc[t].child}]
    /\ pc' = [pc EXCEPT ![t] = "ret"]
    /\ UNCHANGED <<nextId, procVars, mem, heap_current, ustack, proc, tf, panicked, hist>>

\* ------------------------------------------------------------ user memory
\* A store of a user program into its address space.
UserWrite(t, v) ==
    /\ ~panicked
    /\ pc[t] = "user"
    /\ mem[aspace[proc[t]]] # v
    /\ mem' = [mem EXCEPT ![aspace[proc[t]]] = v]
    /\ UNCHANGED <<heap_current, ustack, nextId, procVars, proc, tf, pc, loc,
                   panicked, reaped, hist>>

\* What a process reads from its address space.
View(p) == mem[aspace[p]]


\* ------------------------------------------------------------ signals
\* Red zone kept below the interrupted stack pointer.
USER_SIGNAL_PROTECT == 512

\* size_of::<SigInfo>() (repr(C): 7 words of 4 bytes, padding, one of 8).
SigInfoSize == 40

\* size_of::<SignalUserContext>() (ucontext of the architecture).
UContextSize == 176

\* axconfig::SIGNAL_TRAMPOLINE
SIGNAL_TRAMPOLINE == 12288

\* x & !0xf
AlignDown16(x) == x - (x % 16)

\* Return to user space after a syscall or a dispatch pass.
ToUser(t) ==
    /\ pc' = [pc EXCEPT ![t] = "user"]
    /\ loc' = [loc EXCEPT ![t] = NoLoc]

\* A handler stack that is never the alternate one.
HandlerStackCurrent(m, action, frame) == frame.sp - USER_SIGNAL_PROTECT

\* handle_signals: where the handler's frame starts.
HandlerStack(m, action, frame) ==
    IF "SA_ONSTACK" \in action.sa_flags /\ m.stack.flags # SS_DISABLE
    THEN AlignDown16(m.stack.sp + m.stack.size - 1)
    ELSE frame.sp - USER_SIGNAL_PROTECT

\* handle_signals: the SigInfo handed to an SA_SIGINFO handler.
HandlerInfo(ss, sig_num) ==
    IF (sig_num - 1) \in DOMAIN ss.info
    THEN ss.info[sig_num - 1]
    ELSE [present |-> FALSE, val |-> 0]

\* handle_signals: the trap frame that enters the handler.
HandlerFrame(m, action, frame, sig_num) ==
    LET sp0 == HandlerStack(m, action, frame)
        entry == [frame EXCEPT !.sepc = action.sa_handler, !.a0 = sig_num]
    IN
    IF "SA_SIGINFO" \in action.sa_flags
    THEN LET sp1 == AlignDown16(sp0 - SigInfoSize)
             sp2 == AlignDown16(sp1 - UContextSize)
         IN [entry EXCEPT !.a1 = sp1, !.a2 = sp2, !.sp = sp2]
    ELSE [entry EXCEPT !.sp = sp0]

\* terminate_process(signal, None), called with no lock held.
Terminate(t, sig) ==
    IF IsMainThread(proc[t], t)
    THEN EnterExit(t, sig)
    ELSE /\ pc' = [pc EXCEPT ![t] = "send_lookup"]
         /\ loc' = [loc EXCEPT ![t] =
                [NoLoc EXCEPT !.op = "terminate", !.target = proc[t],
                              !.sig = sig, !.then = "exit"]]

\* A dispatch pass that never sees the saved frame.
DeliveringNever(m) == FALSE

\* handle_signals: a frame is saved, the handling of an earlier signal is not
\* over.
Delivering(m) == m.last_trap_frame.some

\* The branch a dispatch pass of task t takes.
DispatchKind(t) ==
    LET p == proc[t] IN
    IF is_exited[p] THEN "exited"
    ELSE IF t \notin DOMAIN sigmods[p] THEN "panic"
    ELSE LET m == sigmods[p][t]
             sig == find_sig(m.sig_set)
             handler == get_action(m.sig_handler, sig).sa_handler
         IN
         IF sig = NoSig THEN "none"
         ELSE IF Delivering(m)
         THEN IF sig = SIGSEGV \/ sig = SIGBUS THEN "fault" ELSE "drop"
         ELSE IF handler = SIG_DFL THEN "default"
         ELSE IF handler = SIG_IGN THEN "ignore"
         ELSE "handler"

\* handle_signals, run on every return to user space.  One step is the part
\* under the signal_module lock; what the default actions do after the lock
\* is dropped are steps of their own.
Dispatch(t) ==
    /\ ~panicked
    /\ pc[t] \in {"user", "ret"}
    /\ LET p == proc[t] IN
       IF is_exited[p]
       THEN /\ EnterExit(t, 0)
            /\ UNCHANGED <<sigmods, tf, ustack, panicked>>
       ELSE IF t \notin DOMAIN sigmods[p]
       THEN /\ Panic
            /\ UNCHANGED <<sigmods, tf, ustack, pc, loc>>
       ELSE
       LET m == sigmods[p][t]
           sig == find_sig(m.sig_set)
           popped == [m EXCEPT !.sig_set = get_one_sig(m.sig_set)]
           saved == [popped EXCEPT !.last_trap_frame = SomeFrame(tf[t]),
                                   !.sig_info = FALSE]
           action == get_action(m.sig_handler, sig)
       IN
       IF sig = NoSig
       THEN /\ ToUser(t)
            /\ UNCHANGED <<sigmods, tf, ustack, panicked>>
       ELSE IF Delivering(m)
       THEN /\ sigmods' = [sigmods EXCEPT ![p][t] = popped]
            /\ IF sig = SIGSEGV \/ sig = SIGBUS
               THEN EnterExit(t, -1)
               ELSE ToUser(t)
            /\ UNCHANGED <<tf, ustack, panicked>>
       ELSE IF action.sa_handler = SIG_DFL
       THEN /\ sigmods' = [sigmods EXCEPT ![p][t] = saved]
            /\ CASE DefaultDisposition(sig) = "Ignore" ->
                      /\ pc' = [pc EXCEPT ![t] = "sig_ignore"]
                      /\ loc' = [loc EXCEPT ![t] = NoLoc]
                      /\ UNCHANGED panicked
                 [] DefaultDisposition(sig) \in {"Terminate", "Core"} ->
                      /\ Terminate(t, sig)
                      /\ UNCHANGED panicked
                 [] OTHER ->
                      /\ Panic
                      /\ UNCHANGED <<pc, loc>>
            /\ UNCHANGED <<tf, ustack>>
       ELSE IF action.sa_handler = SIG_IGN
       THEN /\ sigmods' = [sigmods EXCEPT ![p][t] = saved]
            /\ ToUser(t)
            /\ UNCHANGED <<tf, ustack, panicked>>
       ELSE /\ sigmods' = [sigmods EXCEPT ![p][t] =
                  [saved EXCEPT !.sig_info = "SA_SIGINFO" \in action.sa_flags]]
            /\ tf' = [tf EXCEPT ![t] = HandlerFrame(m, action, tf[t], sig)]
            /\ ustack' = IF "SA_SIGINFO" \in action.sa_flags
                         THEN [ustack EXCEPT ![t] =
                                 [at |-> HandlerFrame(m, action, tf[t], sig).sp,
                                  info |-> HandlerInfo(m.sig_set, sig),
                                  uc_pc |-> tf[t].sepc,
                                  uc_mask |-> m.sig_set.mask]]
                         ELSE ustack
            /\ ToUser(t)
            /\ UNCHANGED panicked
    /\ sent' = IF ~is_exited[proc[t]] /\ t \in DOMAIN sigmods[proc[t]]
               THEN [sent EXCEPT ![t] =
                        @ \ {find_sig(sigmods[proc[t]][t].sig_set)}]
               ELSE sent
    /\ before' = IF DispatchKind(t) = "handler"
                 THEN [before EXCEPT ![t] = SomeFrame(tf[t])]
                 ELSE before
    /\ faulted' = IF DispatchKind(t) = "fault"
                  THEN [faulted EXCEPT ![t] = TRUE]
                  ELSE faulted
    /\ UNCHANGED <<nextId, registry, ppid, children, threads, aspace,
                   exit_code, is_exited, mem, heap_current, proc, reaped, origin, wantMask,
                   probe>>

\* A restore that leaves the handler's stack pointer in the frame.
RestoredFrameKeepSp(t, m) ==
    [m.last_trap_frame.frame EXCEPT !.sp = tf[t].sp]

\* load_trap_for_signal: the frame restored from the saved one; with
\* sig_info the pc comes from the user context at the current stack pointer.
RestoredFrame(t, m) ==
    IF m.sig_info
    THEN [m.last_trap_frame.frame EXCEPT
            !.sepc = IF ustack[t].at = tf[t].sp THEN ustack[t].uc_pc ELSE 0]
    ELSE m.last_trap_frame.frame

\* load_trap_for_signal as run by the Ignore default action.
SigIgnoreRestore(t) ==
    /\ ~panicked
    /\ pc[t] = "sig_ignore"
    /\ IF t \notin DOMAIN sigmods[proc[t]]
       THEN /\ Panic
            /\ UNCHANGED <<tf, pc, loc>>
       ELSE /\ tf' = IF sigmods[proc[t]][t].last_trap_frame.some
                     THEN [tf EXCEPT ![t] = RestoredFrame(t, sigmods[proc[t]][t])]
                     ELSE tf
            /\ ToUser(t)
            /\ UNCHANGED panicked
    /\ UNCHANGED <<nextId, procVars, mem, heap_current, ustack, proc, reaped, hist>>

\* A sigreturn that answers with the live frame's first argument register.
signal_return_live(t, m) == tf[t].a0

\* signal_return: the restored frame's first argument register, or -1 when
\* load_trap_for_signal found no saved frame.
signal_return(t, m) ==
    IF m.last_trap_frame.some THEN RestoredFrame(t, m).a0 ELSE -1

\* sys_sigreturn -> signal_return: load_trap_for_signal, then the restored
\* frame's first argument register, or -1 when no frame was saved.
SysSigreturn(t) ==
    /\ ~panicked
    /\ pc[t] = "user"
    /\ IF t \notin DOMAIN sigmods[proc[t]]
       THEN /\ Panic
            /\ UNCHANGED <<tf, pc, loc>>
       ELSE LET m == sigmods[proc[t]][t] IN
            /\ tf' = IF m.last_trap_frame.some
                     THEN [tf EXCEPT ![t] = RestoredFrame(t, m)]
                     ELSE tf
            /\ loc' = [loc EXCEPT ![t] =
                  [NoLoc EXCEPT !.op = "sigreturn",
                                !.ret = signal_return(t, m)]]
            /\ pc' = [pc EXCEPT ![t] = "ret"]
            /\ UNCHANGED panicked
    /\ UNCHANGED <<nextId, procVars, mem, heap_current, ustack, proc, reaped, hist>>

\* sys_kill(pid, signum)
SysKill(t, pid, signum) ==
    /\ ~panicked
    /\ pc[t] = "user"
    /\ IF pid > 0 /\ signum > 0
       THEN /\ loc' = [loc EXCEPT ![t] =
                  [NoLoc EXCEPT !.op = "kill", !.target = pid, !.sig = signum,
                                !.then = "ret"]]
            /\ pc' = [pc EXCEPT ![t] = "send_lookup"]
       ELSE /\ loc' = [loc EXCEPT ![t] =
                  [NoLoc EXCEPT !.op = "kill", !.target = pid, !.sig = signum,
                                !.err = IF pid = 0 THEN "ESRCH" ELSE "EINVAL"]]
            /\ pc' = [pc EXCEPT ![t] = "ret"]
    /\ UNCHANGED <<nextId, procVars, mem, heap_current, ustack, proc, tf, panicked, reaped,
                   hist>>

\* What follows send_signal_to_proc in its caller: sys_kill drops the result
\* and returns 0; terminate_process unwraps it and calls sys_exit(-1).
AfterSend(t, ok) ==
    IF loc[t].then = "exit"
    THEN IF ok
         THEN /\ EnterExit(t, -1)
              /\ UNCHANGED panicked
         ELSE /\ Panic
              /\ UNCHANGED <<pc, loc>>
    ELSE /\ pc' = [pc EXCEPT ![t] = "ret"]
         /\ loc' = [loc EXCEPT ![t].ret = 0]
         /\ UNCHANGED panicked

\* send_signal_to_proc: get_process(pid), NotFound when absent.
SendLookup(t) ==
    /\ ~panicked
    /\ pc[t] = "send_lookup"
    /\ IF loc[t].target \in registry
       THEN /\ pc' = [pc EXCEPT ![t] = "send_main"]
            /\ UNCHANGED <<loc, panicked>>
       ELSE AfterSend(t, FALSE)
    /\ UNCHANGED <<nextId, procVars, mem, heap_current, ustack, proc, tf, reaped, hist>>

\* send_signal_to_proc: proc.main_thread() indexes the thread table.
SendMain(t) ==
    /\ ~panicked
    /\ pc[t] = "send_main"
    /\ IF Main(loc[t].target) \in threads[loc[t].target]
       THEN /\ pc' = [pc EXCEPT ![t] = "send_add"]
            /\ UNCHANGED panicked
       ELSE /\ Panic
            /\ UNCHANGED pc
    /\ UNCHANGED <<nextId, procVars, mem, heap_current, ustack, proc, tf, loc, reaped, hist>>

\* send_signal_to_proc: the main thread's module is looked up (unwrap) and
\* try_add_sig applied to its signal set.
SendAdd(t) ==
    /\ ~panicked
    /\ pc[t] = "send_add"
    /\ LET q == loc[t].target IN
       IF Main(q) \in DOMAIN sigmods[q]
       THEN /\ sigmods' = [sigmods EXCEPT ![q][Main(q)].sig_set =
                              try_add_sig(@, loc[t].sig, loc[t].info)]
            /\ sent' = [sent EXCEPT ![Main(q)] = @ \cup {loc[t].sig}]
            /\ AfterSend(t, TRUE)
       ELSE /\ Panic
            /\ UNCHANGED <<sigmods, pc, loc, sent>>
    /\ UNCHANGED <<nextId, registry, ppid, children, threads, aspace,
                   exit_code, is_exited, mem, heap_current, ustack, proc, tf, reaped,
                   origin, wantMask, sigHist>>

\* SigMaskFlag::from: 0, 1, 2 are Block, Unblock, Setmask; anything else
\* panics.
SigMaskFlagFrom(value) ==
    CASE value = 0 -> "Block"
      [] value = 1 -> "Unblock"
      [] value = 2 -> "Setmask"
      [] OTHER -> "panic"

\* A sigprocmask that replaces the mask whatever the operation is.
MaskAfterReplace(mask, flag, now_mask) == now_mask

\* sys_sigprocmask: the blocked mask after the call.
MaskAfter(mask, flag, now_mask) ==
    CASE flag = "Block" -> mask \cup now_mask
      [] flag = "Unblock" -> mask \ now_mask
      [] OTHER -> now_mask

\* Option of a user pointer to a mask: None is a null pointer.
NoMask == [present |-> FALSE, mask |-> {}]

SomeMask(m) == [present |-> TRUE, mask |-> m]

\* sys_sigprocmask(flag, new_mask, old_mask, sigsetsize); wantOld says that
\* old_mask is not null.
SysSigprocmask(t, how, new, wantOld, sigsetsize) ==
    /\ ~panicked
    /\ pc[t] = "user"
    /\ LET p == proc[t]
           flag == SigMaskFlagFrom(how)
       IN
       IF flag = "panic"
       THEN /\ Panic
            /\ UNCHANGED <<sigmods, pc, loc, wantMask>>
       ELSE IF sigsetsize # SIGSET_SIZE_IN_BYTE
       THEN /\ loc' = [loc EXCEPT ![t] =
                  [NoLoc EXCEPT !.op = "sigprocmask", !.err = "EINVAL"]]
            /\ pc' = [pc EXCEPT ![t] = "ret"]
            /\ UNCHANGED <<sigmods, panicked, wantMask>>
       ELSE IF t \notin DOMAIN sigmods[p]
       THEN /\ Panic
            /\ UNCHANGED <<sigmods, pc, loc, wantMask>>
       ELSE /\ loc' = [loc EXCEPT ![t] =
                  [NoLoc EXCEPT !.op = "sigprocmask",
                                !.wrote = wantOld,
                                !.old = IF wantOld
                                        THEN sigmods[p][t].sig_set.mask
                                        ELSE {}]]
            /\ sigmods' = IF new.present
                          THEN [sigmods EXCEPT ![p][t].sig_set.mask =
                                   MaskAfter(@, flag, new.mask)]
                          ELSE sigmods
            /\ wantMask' = IF new.present
                           THEN [wantMask EXCEPT ![t] =
                                    MaskAfter(@, flag, new.mask)]
                           ELSE wantMask
            /\ pc' = [pc EXCEPT ![t] = "ret"]
            /\ UNCHANGED panicked
    /\ UNCHANGED <<nextId, registry, ppid, children, threads, aspace,
                   exit_code, is_exited, mem, heap_current, ustack, proc, tf, reaped,
                   origin, sent, sigHist>>


\* ------------------------------------------------------------ lifecycle
\* The steps inside the kernel that need no input.
KernelStep(t) ==
    \/ ExitThreadModule(t)
    \/ ExitThreadRemove(t)
    \/ ExitReparent(t)
    \/ ExitMark(t)
    \/ ExitBarrier(t)
    \/ ExitStore(t)
    \/ ExitUnregister(t)
    \/ CloneRegister(t)
    \/ ClonePush(t)
    \/ CloneSpawn(t)
    \/ AddThreadModule(t)
    \/ AddThreadTable(t)
    \/ WaitFind(t)
    \/ WaitState(t)
    \/ WaitCode(t)
    \/ WaitRemove(t)
    \/ WaitTime(t)
    \/ WaitAnyScan(t)
    \/ WaitAnyRemove(t)
    \/ WaitAnyTime(t)
    \/ WaitAnyCode(t)
    \/ WaitYield(t)
    \/ Dispatch(t)

\* pid arguments of wait: any child (-1) or one pid.
WaitTargets == {-1} \cup Ids

\* Flag words of the clone calls of the lifecycle: fork, a sibling of the
\* caller, a thread.
LifeFlags == {{}, {"CLONE_PARENT"}, {"CLONE_VM", "CLONE_THREAD"}}

\* The syscalls of the lifecycle: clone, exit, wait.
LifeCall(t) ==
    \/ \E status \in ExitCodes : SysExit(t, status)
    \/ \E flags \in LifeFlags : SysClone(t, flags, 0)
    \/ \E pid \in WaitTargets : SysWait(t, pid)

Next == \E t \in Ids : KernelStep(t) \/ LifeCall(t)

Spec == Init /\ [][Next]_vars

\* ------------------------------------------------------------ properties
\* The elements of a Vec.
Range(v) == {v[i] : i \in 1..Len(v)}

\* Positions of Process::exit and of the end of the main thread.
ExitPcs == {"exit_thread", "exit_reparent", "exit_mark", "exit_barrier",
            "exit_store", "exit_unreg"}

\* The code the main thread of process c passed to exit: the argument while
\* the exit runs, the stored exit code once the task is gone.
FinalCode(c) == IF pc[c] \in ExitPcs THEN loc[c].code ELSE exit_code[c]

\* A wait call of task t has returned a pid.
WaitReturned(t) == pc[t] = "ret" /\ loc[t].op = "wait" /\ loc[t].err = ""

\* C1: whenever a wait call returns the pid of a child whose main thread
\* called exit(c), the status word it stored is c << 8; no waiter sees the
\* child as exited with a code that is not the final one.
C1_ExitStatusRoundTrip ==
    \A t \in Ids :
        (WaitReturned(t) /\ pc[loc[t].ret] \in ExitPcs \cup {"dead"})
            => loc[t].out = Shl8(FinalCode(loc[t].ret))

\* The lifecycle of the first tasks: clone is refused beyond ReapMaxId.
ReapCall(t) ==
    \/ \E status \in ExitCodes : SysExit(t, status)
    \/ nextId <= ReapMaxId /\ \E flags \in LifeFlags : SysClone(t, flags, 0)
    \/ \E pid \in WaitTargets : SysWait(t, pid)

ReapNext == \E t \in Ids : KernelStep(t) \/ ReapCall(t)

ReapSpec == Init /\ [][ReapNext]_vars

\* C2: once a wait call of a process has returned a child's pid, the child is
\* in the children list of that process no more, and a later wait for that
\* pid by the process finds no such child and returns NotExist (ECHILD).
C2_AtMostOnceReap ==
    /\ \A p \in Ids : reaped[p] \cap Range(children[p]) = {}
    /\ \A t \in Ids :
          (loc[t].op = "wait" /\ loc[t].again)
              => \/ pc[t] = "wait_find"
                 \/ pc[t] = "ret" /\ loc[t].err = "ECHILD"

\* C2 witness: a process has reaped a child, waited for the same pid again
\* and got ECHILD.
C2_SecondWaitSeen ==
    \E t \in Ids :
        /\ pc[t] = "ret" /\ loc[t].op = "wait" /\ loc[t].again
        /\ loc[t].target \in reaped[proc[t]]
        /\ loc[t].err = "ECHILD"

\* C3: with several threads of one process in wait at once, every pid a wait
\* returns is that of a child that had exited and matched the request, no
\* child is returned by two waits, and no wait indexes the children list
\* past its end.
C3_ReapAtomic ==
    /\ \A t \in Ids :
          WaitReturned(t) =>
              /\ is_exited[loc[t].ret]
              /\ loc[t].target > 0 => loc[t].ret = loc[t].target
    /\ \A t, u \in Ids :
          (t # u /\ WaitReturned(t) /\ WaitReturned(u))
              => loc[t].ret # loc[u].ret
    /\ \A t \in Ids :
          pc[t] \in {"wait_remove", "waitany_remove"} => ~panicked

\* C4: from the end of the exit barrier to the removal from the registry (the
\* exit code is stored in between) the thread table of the exiting process
\* holds exactly one entry, the main thread; until then the process stays
\* registered with no exit code stored.
C4_ExitBarrierSafe ==
    \A t \in Ids :
        /\ pc[t] \in {"exit_store", "exit_unreg"}
              => /\ threads[proc[t]] = {Main(proc[t])}
                 /\ proc[t] \in registry
        /\ pc[t] \in {"exit_mark", "exit_barrier", "exit_store"}
              => /\ proc[t] \in registry
                 /\ exit_code[proc[t]] = 0

\* C6: a clone without CLONE_THREAD takes a pid no process has, registers the
\* new process under it with the caller's pid as parent pid (the caller's
\* parent pid with CLONE_PARENT), and appends it to the children list of the
\* process its parent pid names.
C6_CloneProcess ==
    [][\A t \in Ids :
          LET n == loc[t].child IN
          /\ (pc[t] = "clone_register" /\ pc'[t] = "clone_push")
                => /\ n \notin registry
                   /\ \A q \in Ids : n \notin Range(children[q])
                   /\ n \in registry'
                   /\ ppid'[n] = IF "CLONE_PARENT" \in loc[t].flags
                                 THEN ppid[proc[t]] ELSE proc[t]
          /\ (pc[t] = "clone_push" /\ pc'[t] = "clone_spawn")
                => /\ ppid[n] \in Ids
                   /\ n \in Range(children'[ppid[n]])
      ]_vars

\* C7: a clone with CLONE_THREAD returns the thread id of the new thread,
\* which differs from the caller's; no process is made, the pid of the
\* caller's process is as before and the new thread id is in the thread
\* table of that process.
C7_CloneThread ==
    [][\A t \in Ids :
          (pc[t] = "add_thread" /\ pc'[t] = "ret"
              /\ loc[t].op = "clone_thread")
            => /\ loc'[t].ret = loc[t].child
               /\ loc'[t].ret # t
               /\ registry' = registry
               /\ proc'[t] = proc[t]
               /\ loc[t].child \in threads'[proc[t]]
      ]_vars


\* ------------------------------------------------------------ fair lifecycle
\* The lifecycle under a fair scheduler: a task that can take a step inside
\* the kernel (a yield loop included) is run again and again.  What a user
\* program does between traps is up to the program, and so is whether it
\* is.  The calls are those of the lifecycle with one exit code, with fork
\* and thread creation, and with waits for any child or for the last pid.
FairCall(t) ==
    \/ SysExit(t, 0)
    \/ \E flags \in {{}, {"CLONE_VM", "CLONE_THREAD"}} : SysClone(t, flags, 0)
    \/ \E pid \in {-1, MaxId} : SysWait(t, pid)

FairNext == \E t \in Ids : KernelStep(t) \/ FairCall(t)

FairSpec ==
    /\ Init
    /\ [][FairNext]_vars
    /\ \A t \in Ids : WF_vars(KernelStep(t))

\* C5: under fair scheduling, once the main thread of a process is in the
\* exit barrier, the siblings all leave and the process is removed from the
\* registry, whatever the siblings were doing (a kernel that has panicked
\* runs nothing more).
C5_ExitBarrierLive ==
    \A p \in Ids :
        (pc[p] = "exit_barrier" /\ proc[p] = p)
            ~> (p \notin registry \/ panicked)

\* ------------------------------------------------------------ memory
\* clone flags of a fork and of a fork that shares the memory.
MemFlags == {{}, {"CLONE_VM"}}

MemStep(t) ==
    \/ CloneRegister(t)
    \/ ClonePush(t)
    \/ CloneSpawn(t)
    \/ AddThreadModule(t)
    \/ AddThreadTable(t)
    \/ Dispatch(t)

MemCall(t) ==
    \/ \E flags \in MemFlags : SysClone(t, flags, 0)
    \/ \E v \in Bytes : UserWrite(t, v)

MemNext == \E t \in Ids : MemStep(t) \/ MemCall(t)

\* Processes that clone one another and write to their memory.
MemSpec == Init /\ [][MemNext]_vars

\* Process n was made by a clone of process p that did not ask for CLONE_VM.
ForkedFrom(n, p) ==
    n \in registry /\ origin[n].creator = p /\ ~origin[n].vm

\* C8: the address space of a process made by clone is the caller's own
\* object exactly when CLONE_VM was given; without it a write by the caller
\* or by the child does not change what the other reads.
C8_AspaceSharing ==
    /\ [](\A n \in Ids :
            (n \in registry /\ origin[n].creator # 0)
                => (aspace[n] = aspace[origin[n].creator] <=> origin[n].vm))
    /\ [][\A t \in Ids : \A v \in Bytes :
            UserWrite(t, v) =>
                \A n \in Ids :
                    (ForkedFrom(n, proc[t]) \/ ForkedFrom(proc[t], n))
                        => View(n)' = View(n)
         ]_vars

\* ------------------------------------------------------------ signals
\* Signals sent and masked by the users of the signal specification.
SentSigs == {SIGKILL, SIGCHLD}

\* pid arguments of kill: none, the first process, a pid never registered.
KillTargets == {0, FirstPid, MaxId + 1}

SigStep(t) ==
    \/ SendLookup(t)
    \/ SendMain(t)
    \/ SendAdd(t)
    \/ AddThreadModule(t)
    \/ AddThreadTable(t)
    \/ Dispatch(t)

\* Arguments of the sigprocmask calls: every operation on every mask, a null
\* new mask with the old one asked for, an unknown operation, a wrong size.
SigmaskCalls ==
    {<<how, SomeMask(m), FALSE, SIGSET_SIZE_IN_BYTE>> :
        how \in 0..2, m \in SUBSET SentSigs}
    \cup {<<0, NoMask, TRUE, SIGSET_SIZE_IN_BYTE>>,
          <<3, NoMask, FALSE, SIGSET_SIZE_IN_BYTE>>,
          <<0, NoMask, FALSE, SIGSET_SIZE_IN_BYTE - 4>>,
          <<3, NoMask, FALSE, SIGSET_SIZE_IN_BYTE - 4>>}

SigCall(t) ==
    \/ \E pid \in KillTargets : \E signum \in SentSigs \cup {0} :
          SysKill(t, pid, signum)
    \/ \E c \in SigmaskCalls : SysSigprocmask(t, c[1], c[2], c[3], c[4])
    \/ SysSigreturn(t)
    \/ nextId <= SigMaxId /\ SysClone(t, {"CLONE_VM", "CLONE_THREAD"}, 0)

SigNext == \E t \in Ids : SigStep(t) \/ SigCall(t)

\* The threads of one process that mask and send signals.
SigSpec == Init /\ [][SigNext]_vars

\* C9: a send of signal N to a process sets pending bit N in the module of
\* its main thread and changes neither the blocked mask of that module nor
\* the module of any other thread.
C9_SendSetsPending ==
    [][\A t \in Ids :
          (pc[t] = "send_add" /\ pc'[t] # "send_add" /\ ~panicked')
            => LET q == loc[t].target
                   N == loc[t].sig
               IN
               /\ N \in sigmods'[q][Main(q)].sig_set.pending
               /\ sigmods'[q][Main(q)].sig_set.mask
                     = sigmods[q][Main(q)].sig_set.mask
               /\ \A u \in DOMAIN sigmods[q] \ {Main(q)} :
                     sigmods'[q][u] = sigmods[q][u]
      ]_vars

\* The signal a dispatch pass of task t would select now.
Selected(t) == find_sig(sigmods[proc[t]][t].sig_set)

\* C10: a signal N a thread has blocked with sigprocmask and then been sent
\* stays pending and is not selected by a dispatch pass until it is
\* unblocked; when N is SIGKILL or SIGSTOP the dispatch pass that follows
\* the send selects a signal although N is blocked.
C10_SignalMasking ==
    /\ [](\A t \in Ids :
            (proc[t] \in Ids /\ t \in DOMAIN sigmods[proc[t]]) =>
                \A N \in sent[t] \cap wantMask[t] :
                    /\ N \in sigmods[proc[t]][t].sig_set.pending
                    /\ N \notin {SIGKILL, SIGSTOP} => Selected(t) # N)
    /\ [][\A t \in Ids :
            (/\ pc[t] = "ret" /\ pc'[t] # "ret"
             /\ proc[t] \in Ids /\ t \in DOMAIN sigmods[proc[t]]
             /\ sent[t] \cap wantMask[t] \cap {SIGKILL, SIGSTOP} # {})
                => Selected(t) # NoSig
         ]_vars

\* C11: a kill with pid > 0 and signal > 0 whose pid names no registered
\* process does not report success: it fails with a not-found error.  (In
\* the signal specification no process leaves or enters the registry, so
\* the lookup of a pid that is not registered now did fail.)
C11_KillNotFound ==
    \A t \in Ids :
        (/\ pc[t] = "ret" /\ loc[t].op = "kill"
         /\ loc[t].target > 0 /\ loc[t].sig > 0
         /\ loc[t].target \notin registry)
            => loc[t].err # ""

\* C17: a sigprocmask call with a signal-set size other than 8 bytes returns
\* EINVAL and leaves every mask and the old-mask output as they were,
\* whatever the how argument is.
C17_SigsetSize ==
    [][\A t \in Ids : \A c \in SigmaskCalls :
          (c[4] # SIGSET_SIZE_IN_BYTE
              /\ SysSigprocmask(t, c[1], c[2], c[3], c[4]))
            => /\ ~panicked'
               /\ pc'[t] = "ret"
               /\ loc'[t].err = "EINVAL"
               /\ ~loc'[t].wrote
               /\ sigmods' = sigmods
      ]_vars

\* ---------------------------------------------------------------------
\* Signal delivery: handlers, pending signals, dispatch and sigreturn.
\* ---------------------------------------------------------------------

\* Most threads a process has under DeliverSpec.
DeliverMaxId == 3

\* SignalHandler::set_action: handlers[sig_num - 1] = *action
set_action(handler, sig_num, action) ==
    IF action = DefaultAction
    THEN MapRemove(handler, sig_num)
    ELSE MapInsert(handler, sig_num, action)

\* The entry address of the user handler the threads install.
HandlerEntry == 8192

\* The actions a thread installs: a plain handler, an SA_SIGINFO handler,
\* SIG_IGN.
PlainAction == [DefaultAction EXCEPT !.sa_handler = HandlerEntry]

InfoAction == [PlainAction EXCEPT !.sa_flags = {"SA_SIGINFO"}]

IgnoreAction == [DefaultAction EXCEPT !.sa_handler = SIG_IGN]

InstalledActions == {PlainAction, InfoAction, IgnoreAction}

\* The signal the threads install actions for, and the signals raised.
HandledSigs == {SIGCHLD}

RaisedSigs == {SIGSEGV, SIGCHLD}

\* A sigaction call of task t: set_action on the handler table of t's
\* signal module.
SysSigaction(t, sig, action) ==
    /\ ~panicked
    /\ pc[t] = "user"
    /\ IF t \notin DOMAIN sigmods[proc[t]]
       THEN /\ Panic
            /\ UNCHANGED <<sigmods, pc, loc>>
       ELSE /\ sigmods' = [sigmods EXCEPT ![proc[t]][t].sig_handler =
                               set_action(@, sig, action)]
            /\ loc' = [loc EXCEPT ![t] =
                  [NoLoc EXCEPT !.op = "sigaction", !.sig = sig]]
            /\ pc' = [pc EXCEPT ![t] = "ret"]
            /\ UNCHANGED panicked
    /\ UNCHANGED <<nextId, registry, ppid, children, threads, aspace,
                   exit_code, is_exited, mem, heap_current, ustack, proc, tf, reaped, hist>>

\* A signal becomes pending for task t while it runs in user space: the
\* pending bit of t's signal set is set.
RaiseSignal(t, sig) ==
    /\ ~panicked
    /\ pc[t] = "user"
    /\ t \in DOMAIN sigmods[proc[t]]
    /\ sig \notin sigmods[proc[t]][t].sig_set.pending
    /\ sigmods' = [sigmods EXCEPT ![proc[t]][t].sig_set.pending =
                       @ \cup {sig}]
    /\ UNCHANGED <<nextId, registry, ppid, children, threads, aspace,
                   exit_code, is_exited, mem, heap_current, ustack, proc, tf, pc, loc,
                   panicked, reaped, hist>>

\* The first-argument register values the user code leaves in its frame.
UserValues == {0, 5}

\* The handler of task t runs and traps again with another value in its
\* first-argument register.
UserRun(t) ==
    /\ ~panicked
    /\ pc[t] = "user"
    /\ tf[t].sepc = HandlerEntry
    /\ \E v \in UserValues \ {tf[t].a0} :
            tf' = [tf EXCEPT ![t].a0 = v]
    /\ UNCHANGED <<nextId, procVars, mem, heap_current, ustack, proc, pc, loc, panicked,
                   reaped, hist>>

DeliverStep(t) ==
    \/ Dispatch(t)
    \/ SigIgnoreRestore(t)
    \/ SendLookup(t)
    \/ SendMain(t)
    \/ SendAdd(t)
    \/ AddThreadModule(t)
    \/ AddThreadTable(t)
    \/ ExitThreadModule(t)
    \/ ExitThreadRemove(t)
    \/ ExitReparent(t)
    \/ ExitMark(t)
    \/ ExitBarrier(t)
    \/ ExitStore(t)
    \/ ExitUnregister(t)

DeliverCall(t) ==
    \/ \E sig \in RaisedSigs : RaiseSignal(t, sig)
    \/ \E sig \in HandledSigs : \E action \in InstalledActions :
            SysSigaction(t, sig, action)
    \/ SysSigreturn(t)
    \/ UserRun(t)
    \/ /\ nextId <= DeliverMaxId
       /\ SysClone(t, {"CLONE_VM", "CLONE_THREAD"}, 0)

DeliverNext == \E t \in Ids : DeliverStep(t) \/ DeliverCall(t)

DeliverSpec == Init /\ [][DeliverNext]_vars

\* Every thread that is inside the kernel is scheduled again.
DeliverFairSpec ==
    Init /\ [][DeliverNext]_vars /\ \A t \in Ids : WF_vars(DeliverStep(t))

\* C12: when a dispatch pass of a thread (main thread or not) that has a
\* saved trap frame selects SIGSEGV or SIGBUS, the whole process ends: it is
\* marked exited and in the end removed from the registry.
C12_NestedFaultEndsProcess ==
    \A t \in Ids :
        faulted[t] ~> (\/ /\ proc[t] \in Ids
                          /\ is_exited[proc[t]]
                          /\ proc[t] \notin registry
                       \/ panicked)

\* C13: a sigreturn of a thread that entered a handler leaves the thread's
\* saved-frame slot empty, so that the next pending signal is dispatched as
\* a first one, not as a nested one.
C13_SigreturnClearsSlot ==
    [][\A t \in Ids :
          (before[t].some /\ SysSigreturn(t) /\ ~panicked')
            => ~Delivering(sigmods'[proc[t]][t])
      ]_vars

\* C14: for a handler installed without SA_SIGINFO, the sigreturn that
\* follows the delivery leaves the live trap frame equal to the frame the
\* thread had just before the delivery, and returns that frame's
\* first-argument register.
C14_RoundTrip ==
    [][\A t \in Ids :
          (/\ before[t].some
           /\ t \in DOMAIN sigmods[proc[t]]
           /\ ~sigmods[proc[t]][t].sig_info
           /\ SysSigreturn(t))
            => /\ ~panicked'
               /\ tf'[t] = before[t].frame
               /\ loc'[t].ret = before[t].frame.a0
      ]_vars

\* A plain handler was entered, ran and returned with sigreturn.
C14_Returned ==
    \E t \in Ids :
        /\ pc[t] = "ret" /\ loc[t].op = "sigreturn"
        /\ before[t].some
        /\ t \in DOMAIN sigmods[proc[t]]
        /\ ~sigmods[proc[t]][t].sig_info
        /\ tf[t] = before[t].frame
        /\ loc[t].ret = before[t].frame.a0

\* C15: a handler frame is built only by a dispatch pass that finds the
\* saved-frame slot empty; a dispatch pass of a thread whose slot holds a
\* frame changes neither the saved frame nor the live trap frame.
C15_SingleSlot ==
    [][\A t \in Ids :
          (/\ Dispatch(t)
           /\ t \in DOMAIN sigmods[proc[t]]
           /\ sigmods[proc[t]][t].last_trap_frame.some)
            => /\ tf'[t] = tf[t]
               /\ sigmods'[proc[t]][t].last_trap_frame
                    = sigmods[proc[t]][t].last_trap_frame
               /\ before'[t] = before[t]
      ]_vars

\* A dispatch pass selected a fault signal while a handler's frame was saved.
C15_NestedPass ==
    \E t \in Ids : faulted[t] /\ before[t].some /\ tf[t].sepc = HandlerEntry

\* ---------------------------------------------------------------------
\* Blocked masks: sigprocmask calls of the threads of one process.
\* ---------------------------------------------------------------------

\* Most threads a process has under MaskSpec.
MaskMaxId == 3

\* Arguments of the sigprocmask calls: every operation with every new mask
\* or none, with and without the old mask asked for.
MaskCalls ==
    {<<how, new, wantOld>> :
        how \in 0..2,
        new \in {NoMask} \cup {SomeMask(m) : m \in SUBSET SentSigs},
        wantOld \in BOOLEAN}

MaskStep(t) ==
    \/ Dispatch(t)
    \/ SigIgnoreRestore(t)
    \/ AddThreadModule(t)
    \/ AddThreadTable(t)

MaskCall(t) ==
    \/ \E c \in MaskCalls :
          SysSigprocmask(t, c[1], c[2], c[3], SIGSET_SIZE_IN_BYTE)
    \/ RaiseSignal(t, SIGCHLD)
    \/ /\ nextId <= MaskMaxId
       /\ SysClone(t, {"CLONE_VM", "CLONE_THREAD"}, 0)

MaskNext == \E t \in Ids : MaskStep(t) \/ MaskCall(t)

MaskSpec == Init /\ [][MaskNext]_vars

\* C16: a sigprocmask call writes to old, when old is requested, the calling
\* thread's blocked mask as it was before the call; the new blocked mask is
\* old OR new for Block, old AND NOT new for Unblock and new for Setmask, and
\* the old one when new is absent; the pending sets and the masks of the
\* other threads stay as they were.
C16_Sigprocmask ==
    [][\A t \in Ids : \A c \in MaskCalls :
          (/\ pc[t] = "user"
           /\ t \in DOMAIN sigmods[proc[t]]
           /\ SysSigprocmask(t, c[1], c[2], c[3], SIGSET_SIZE_IN_BYTE))
            => LET old == sigmods[proc[t]][t].sig_set.mask
                   new == c[2].mask
                   want == IF ~c[2].present THEN old
                           ELSE IF c[1] = 0 THEN old \cup new
                           ELSE IF c[1] = 1
                           THEN {s \in old : s \notin new}
                           ELSE new
               IN /\ ~panicked'
                  /\ loc'[t].err = ""
                  /\ loc'[t].wrote = c[3]
                  /\ c[3] => loc'[t].old = old
                  /\ sigmods'[proc[t]][t].sig_set.mask = want
                  /\ sigmods' = [sigmods EXCEPT
                                    ![proc[t]][t].sig_set.mask = want]
      ]_vars

\* A thread with a signal pending unblocked one signal of two and got the
\* old mask, while another thread of the process has a mask of its own.
C16_Unblocked ==
    \E t, u \in Ids :
        /\ t # u /\ proc[t] = proc[u] /\ proc[t] \in Ids
        /\ {t, u} \subseteq DOMAIN sigmods[proc[t]]
        /\ pc[t] = "ret" /\ loc[t].op = "sigprocmask"
        /\ loc[t].wrote /\ loc[t].old = SentSigs
        /\ sigmods[proc[t]][t].sig_set.mask = {SIGKILL}
        /\ sigmods[proc[t]][t].sig_set.pending = {SIGCHLD}
        /\ sigmods[proc[u]][u].sig_set.mask = {SIGCHLD}

\* ---------------------------------------------------------------------
\* Exit status: exit codes outside 0..255.
\* ---------------------------------------------------------------------

\* Exit codes of the processes: the -1 of a fault, a small code, a code
\* above 255.
StatusCodes == {-1, 7, 256}

StatusCall(t) ==
    \/ \E status \in StatusCodes : SysExit(t, status)
    \/ nextId <= ReapMaxId /\ \E flags \in LifeFlags : SysClone(t, flags, 0)
    \/ \E pid \in WaitTargets : SysWait(t, pid)

StatusNext == \E t \in Ids : KernelStep(t) \/ StatusCall(t)

StatusSpec == Init /\ [][StatusNext]_vars

\* C18: the status word a wait stores for the child it reaps is
\* (code & 0xff) << 8, where code is the exit code it read from the child,
\* also when the code is negative or above 255.
C18_StatusWord ==
    \A t \in Ids :
        (WaitReturned(t) /\ loc[t].wrote)
            => loc[t].out = (loc[t].code % 256) * 256

\* C19: a wait with target_pid <= 0 answers NotExist when the process has no
\* children; Running, with the list as it was, when it has children and none
\* is exited; otherwise it picks the first exited child in list order,
\* removes that child (the others keep their order) and returns its pid.
C19_WaitAny ==
    [][\A t \in Ids :
          /\ WaitAnyScan(t) =>
                LET kids == children[proc[t]]
                    done == {i \in 1..Len(kids) : is_exited[kids[i]]}
                IN /\ children' = children
                   /\ kids = <<>> =>
                         pc'[t] = "ret" /\ loc'[t].err = "ECHILD"
                   /\ (kids # <<>> /\ done = {}) => pc'[t] = "wait_yield"
                   /\ done # {} =>
                         /\ pc'[t] = "waitany_remove"
                         /\ loc'[t].found = kids[SetMin(done)]
          /\ WaitAnyRemove(t) =>
                /\ ~panicked'
                /\ loc'[t].child = loc[t].found
                /\ children'[proc[t]] =
                      SelectSeq(children[proc[t]],
                                LAMBDA c : c # loc[t].found)
          /\ WaitAnyCode(t) => loc'[t].ret = loc[t].found
      ]_vars

\* C20: under fair scheduling a blocking wait of thread t for child c, once c
\* has exited, ends with the pid of c, unless another thread of the process
\* enters a wait and may reap c (a panic of the kernel outside the reaping of
\* this wait is not counted).
C20_BlockingWait ==
    \A t \in Ids : \A c \in Ids :
        (/\ loc[t].op = "wait" /\ loc[t].target = c
         /\ pc[t] \in {"wait_find", "wait_state", "wait_yield"}
         /\ c \in Range(children[proc[t]])
         /\ is_exited[c])
          ~> (\/ WaitReturned(t) /\ loc[t].ret = c
              \/ \E u \in Ids \ {t} : proc[u] = proc[t] /\ loc[u].op = "wait"
              \/ panicked /\ pc[t] \notin {"wait_remove", "wait_time"})

\* C21: a process that has been spawned is in the registry if and only if
\* its is_exited flag is false or its parent has not reaped it yet.
C21_RegistryReachable ==
    \A p \in Ids :
        (proc[p] = p /\ pc[p] # "none")
            => (p \in registry
                  <=> (~is_exited[p] \/ \A q \in Ids : p \notin reaped[q]))

\* C22: once the exit of process p is over, every process in the children
\* list of p has parent pid 1.
C22_ReparentOnExit ==
    \A p \in Ids :
        (proc[p] = p /\ pc[p] = "dead")
            => \A i \in 1..Len(children[p]) : ppid[children[p][i]] = RootPid

\* C23: a dispatch pass that finds the thread inside a handler, with a saved
\* frame, and selects a signal other than SIGSEGV and SIGBUS leaves the pending bit of that
\* signal set, so that a later pass can dispatch it.
C23_NestedStaysPending ==
    [][\A t \in Ids :
          (before[t].some /\ Dispatch(t) /\ DispatchKind(t) = "drop")
            => find_sig(sigmods[proc[t]][t].sig_set)
                  \in sigmods'[proc[t]][t].sig_set.pending
      ]_vars

\* C24: a dispatch pass that selects a signal whose action is SIG_IGN drops
\* the signal and leaves the thread idle: the live trap frame is as it was
\* and the saved-frame slot is empty.
C24_IgnoredByAction ==
    [][\A t \in Ids :
          (Dispatch(t) /\ DispatchKind(t) = "ignore")
            => /\ tf'[t] = tf[t]
               /\ ~sigmods'[proc[t]][t].last_trap_frame.some
      ]_vars

\* C25: a dispatch pass that selects a signal with the default handler and
\* the default disposition Ignore ends with the live trap frame equal to the
\* frame before the pass and with the saved-frame slot empty.
C25_IgnoredByDefault ==
    [][\A t \in Ids :
          (SigIgnoreRestore(t) /\ ~panicked')
            => /\ tf'[t] = tf[t]
               /\ ~sigmods'[proc[t]][t].last_trap_frame.some
      ]_vars

\* C26: when a thread that is not the main thread takes the Terminate or
\* Core default action for a signal, then, under fair scheduling, the main
\* thread takes the action for the forwarded signal and the whole process
\* exits (a kernel that has panicked runs nothing more).
C26_TerminateForwarded ==
    \A t \in Ids :
        (pc[t] = "send_lookup" /\ loc[t].op = "terminate")
            ~> (\/ proc[t] \in Ids /\ is_exited[proc[t]]
                \/ panicked)

\* ---------------------------------------------------------------------
\* Signal selection on machine words.
\* ---------------------------------------------------------------------

\* Bits of a pending or mask word here (64 in the kernel, where a word has
\* as many bits as there are signals, MAX_SIG_NUM).
WordBits == 20

RECURSIVE Pow2(_)
Pow2(n) == IF n = 0 THEN 1 ELSE 2 * Pow2(n - 1)

\* word & (1 << i) != 0
BitSet(word, i) == (word \div Pow2(i)) % 2 = 1

\* word & !(1 << i)
ClearBit(word, i) == IF BitSet(word, i) THEN word - Pow2(i) ELSE word

\* usize::trailing_zeros: the position of the lowest set bit, the number of
\* bits of a word for 0.
TrailingZeros(word) ==
    IF word = 0 THEN WordBits
    ELSE CHOOSE i \in 0..(WordBits - 1) :
            BitSet(word, i) /\ \A j \in 0..(i - 1) : ~BitSet(word, j)

\* A selection that lets SIGKILL and SIGSTOP be blocked.
RECURSIVE find_sig_maskable(_, _)
find_sig_maskable(pending, mask) ==
    LET pos == TrailingZeros(pending) IN
    IF pos = WordBits THEN NoSig
    ELSE IF ~BitSet(mask, pos) THEN pos + 1
    ELSE find_sig_maskable(ClearBit(pending, pos), mask)

\* SignalSet::find_sig on the words pending and mask.
RECURSIVE find_sig_bits(_, _)
find_sig_bits(pending, mask) ==
    LET pos == TrailingZeros(pending) IN
    IF pos = WordBits THEN NoSig
    ELSE IF \/ ~BitSet(mask, pos)
            \/ pos = SIGKILL - 1
            \/ pos = SIGSTOP - 1
    THEN pos + 1
    ELSE find_sig_bits(ClearBit(pending, pos), mask)

\* SignalSet::get_one_sig: the signal found and the pending word left.
get_one_sig_bits(pending, mask) ==
    LET sig == find_sig_bits(pending, mask) IN
    [sig |-> sig,
     left |-> IF sig # NoSig THEN ClearBit(pending, sig - 1) ELSE pending]

\* The signals whose bits the probed words are made of: the lowest, SIGKILL
\* and its neighbour, SIGSTOP, the highest.
ProbeSigs == {1, SIGKILL, SIGKILL + 1, SIGSTOP, WordBits}

\* The word with the bits of the signals of S set.
RECURSIVE WordOf(_)
WordOf(S) ==
    IF S = {} THEN 0
    ELSE LET n == SetMin(S) IN Pow2(n - 1) + WordOf(S \ {n})

\* The signals whose bits are set in a word.
SigsOf(word) == {n \in 1..WordBits : BitSet(word, n - 1)}

\* A signal set with some pending and some blocked signals is taken.
ProbeDraw ==
    /\ probe.step = "idle"
    /\ \E P \in SUBSET ProbeSigs : \E M \in SUBSET ProbeSigs :
          probe' = [step |-> "drawn", pending |-> WordOf(P),
                    mask |-> WordOf(M)]
    /\ UNCHANGED <<nextId, procVars, mem, heap_current, ustack, proc, tf, pc, loc,
                   panicked, reaped, origin, sent, wantMask, before, faulted>>

\* get_one_sig is applied to it.
ProbeSelect ==
    /\ probe.step = "drawn"
    /\ probe' = [step |-> "popped", pending |-> probe.pending,
                 mask |-> probe.mask,
                 got |-> get_one_sig_bits(probe.pending, probe.mask)]
    /\ UNCHANGED <<nextId, procVars, mem, heap_current, ustack, proc, tf, pc, loc,
                   panicked, reaped, origin, sent, wantMask, before, faulted>>

SelectNext == ProbeDraw \/ ProbeSelect

SelectSpec == Init /\ [][SelectNext]_vars

\* C27: the pop returns the smallest signal that is pending and either not
\* blocked or SIGKILL or SIGSTOP, and clears the pending bit of that signal
\* and no other; it returns nothing and changes nothing exactly when there
\* is no such signal.
C27_Selection ==
    probe.step = "popped" =>
        LET ready == {n \in SigsOf(probe.pending) :
                         n \notin SigsOf(probe.mask) \/ n \in {SIGKILL, SIGSTOP}}
        IN IF ready = {}
           THEN probe.got.sig = NoSig /\ probe.got.left = probe.pending
           ELSE /\ probe.got.sig \in ready
                /\ \A n \in ready : probe.got.sig <= n
                /\ SigsOf(probe.got.left)
                      = SigsOf(probe.pending) \ {probe.got.sig}

\* A blocked SIGKILL was selected past a blocked lower signal, with other
\* signals pending.
C27_KillPastBlocked ==
    /\ probe.step = "popped"
    /\ probe.got.sig = SIGKILL
    /\ {1, SIGKILL} \subseteq SigsOf(probe.mask)
    /\ SigsOf(probe.got.left) = {1, SIGSTOP, WordBits}

\* ---------------------------------------------------------------------
\* Handler frames: actions with flags, alternate stacks, sends with info.
\* ---------------------------------------------------------------------

\* The address of the restorer an action names.
RestorerEntry == 8448

\* Actions with SA_ONSTACK and with SA_RESTORER.
OnStackAction == [PlainAction EXCEPT !.sa_flags = {"SA_ONSTACK"}]

OnStackInfoAction ==
    [PlainAction EXCEPT !.sa_flags = {"SA_ONSTACK", "SA_SIGINFO"}]

RestorerAction == [PlainAction EXCEPT !.sa_flags = {"SA_RESTORER"},
                                      !.sa_restorer = RestorerEntry]

FrameActions == {PlainAction, InfoAction, OnStackAction, OnStackInfoAction,
                 RestorerAction}

\* Alternate stacks a thread configures: 8192 bytes at an aligned and at an
\* unaligned address.
AltStacks == {[sp |-> 131072, flags |-> 0, size |-> 8192],
              [sp |-> 131080, flags |-> 0, size |-> 8192]}

\* The signals sent with auxiliary info (the handled signal and the one
\* below it), and the payloads.
InfoSigs == {SIGCHLD - 1, SIGCHLD}

InfoVals == {7}

\* A sigaltstack call of task t: the stack of t's signal module is set.
SysSigaltstack(t, st) ==
    /\ ~panicked
    /\ pc[t] = "user"
    /\ t \in DOMAIN sigmods[proc[t]]
    /\ sigmods' = [sigmods EXCEPT ![proc[t]][t].stack = st]
    /\ loc' = [loc EXCEPT ![t] = [NoLoc EXCEPT !.op = "sigaltstack"]]
    /\ pc' = [pc EXCEPT ![t] = "ret"]
    /\ UNCHANGED <<nextId, registry, ppid, children, threads, aspace,
                   exit_code, is_exited, mem, heap_current, ustack, proc, tf, panicked,
                   reaped, hist>>

\* A send of a signal with auxiliary info to the caller's own process:
\* send_signal_to_proc(pid, sig, Some(info)).
SendInfo(t, sig, val) ==
    /\ ~panicked
    /\ pc[t] = "user"
    /\ loc' = [loc EXCEPT ![t] =
          [NoLoc EXCEPT !.op = "sigqueue", !.target = proc[t], !.sig = sig,
                        !.info = [present |-> TRUE, val |-> val],
                        !.then = "ret"]]
    /\ pc' = [pc EXCEPT ![t] = "send_lookup"]
    /\ UNCHANGED <<nextId, procVars, mem, heap_current, ustack, proc, tf, panicked, reaped,
                   hist>>

\* User code of task t, outside a handler, moves its stack pointer down.
UserPush(t) ==
    /\ ~panicked
    /\ pc[t] = "user"
    /\ tf[t].sp = BootFrame.sp
    /\ tf[t].sepc # HandlerEntry
    /\ tf' = [tf EXCEPT ![t].sp = @ - 48]
    /\ UNCHANGED <<nextId, procVars, mem, heap_current, ustack, proc, pc, loc, panicked,
                   reaped, hist>>

FrameStep(t) ==
    \/ Dispatch(t)
    \/ SigIgnoreRestore(t)
    \/ SendLookup(t)
    \/ SendMain(t)
    \/ SendAdd(t)

FrameCall(t) ==
    \/ RaiseSignal(t, SIGCHLD)
    \/ \E action \in FrameActions : SysSigaction(t, SIGCHLD, action)
    \/ \E st \in AltStacks : SysSigaltstack(t, st)
    \/ \E sig \in InfoSigs : \E val \in InfoVals : SendInfo(t, sig, val)
    \/ SysSigreturn(t)
    \/ UserPush(t)
    \/ UserRun(t)

FrameNext == \E t \in Ids : FrameStep(t) \/ FrameCall(t)

FrameSpec == Init /\ [][FrameNext]_vars

\* C28: the trap frame that enters a user handler has the handler address as
\* its program counter and the signal number in its first argument register;
\* its stack pointer lies in the thread's alternate stack when the action
\* has SA_ONSTACK and an alternate stack is configured, and is otherwise the
\* interrupted stack pointer minus 512, lowered further only by the
\* extended-info records.
C28_HandlerEntryFrame ==
    [][\A t \in Ids :
          (Dispatch(t) /\ DispatchKind(t) = "handler")
            => LET m == sigmods[proc[t]][t]
                   sig == find_sig(m.sig_set)
                   action == get_action(m.sig_handler, sig)
                   alt == /\ "SA_ONSTACK" \in action.sa_flags
                          /\ m.stack.flags # SS_DISABLE
                   ext == "SA_SIGINFO" \in action.sa_flags
                   room == SigInfoSize + UContextSize + 30
               IN /\ tf'[t].sepc = action.sa_handler
                  /\ tf'[t].a0 = sig
                  /\ alt => /\ m.stack.sp <= tf'[t].sp
                            /\ tf'[t].sp < m.stack.sp + m.stack.size
                  /\ (~alt /\ ~ext) =>
                        tf'[t].sp = tf[t].sp - USER_SIGNAL_PROTECT
                  /\ (~alt /\ ext) =>
                        /\ tf'[t].sp <= tf[t].sp - USER_SIGNAL_PROTECT
                        /\ tf'[t].sp >= tf[t].sp - USER_SIGNAL_PROTECT - room
      ]_vars

\* A handler was entered on the alternate stack, with extended info, from
\* user code that had moved its stack pointer.
C28_OnAltStack ==
    \E t \in Ids :
        /\ before[t].some
        /\ before[t].frame.sp # BootFrame.sp
        /\ proc[t] \in Ids
        /\ t \in DOMAIN sigmods[proc[t]]
        /\ sigmods[proc[t]][t].sig_info
        /\ sigmods[proc[t]][t].stack \in AltStacks
        /\ tf[t].sepc = HandlerEntry
        /\ tf[t].sp > sigmods[proc[t]][t].stack.sp
        /\ tf[t].sp < sigmods[proc[t]][t].stack.sp + 8192

\* C29: the trap frame that enters a user handler has its return-address
\* register set to the action's restorer when the action has SA_RESTORER and
\* to the signal trampoline otherwise.
C29_ReturnAddress ==
    [][\A t \in Ids :
          (Dispatch(t) /\ DispatchKind(t) = "handler")
            => LET m == sigmods[proc[t]][t]
                   action == get_action(m.sig_handler, find_sig(m.sig_set))
               IN tf'[t].ra = IF "SA_RESTORER" \in action.sa_flags
                              THEN action.sa_restorer
                              ELSE SIGNAL_TRAMPOLINE
      ]_vars

\* C30: the signal-info record handed to a handler with SA_SIGINFO for
\* signal N is the info that was sent with N, and the default record when N
\* was sent without info; it is never the info sent with another signal.
C30_InfoKeyedBySignal ==
    [][\A t \in Ids :
          (/\ Dispatch(t) /\ DispatchKind(t) = "handler"
           /\ sigmods'[proc[t]][t].sig_info)
            => LET ss == sigmods[proc[t]][t].sig_set
                   N == find_sig(ss)
               IN ustack'[t].info = IF N \in DOMAIN ss.info
                                    THEN ss.info[N]
                                    ELSE NoInfo
      ]_vars

\* ---------------------------------------------------------------------
\* Clone with a stack argument, from user code and from inside a handler.
\* ---------------------------------------------------------------------

\* Largest task id of the clone specification.
CloneMaxId == 3

\* user_stack arguments of clone: none, and an address.
CloneStacks == {0, 32768}

CloneStep(t) ==
    \/ CloneRegister(t)
    \/ ClonePush(t)
    \/ CloneSpawn(t)
    \/ AddThreadModule(t)
    \/ AddThreadTable(t)
    \/ Dispatch(t)
    \/ SigIgnoreRestore(t)

CloneCall(t) ==
    \/ /\ nextId <= CloneMaxId
       /\ \E flags \in LifeFlags : \E stack \in CloneStacks :
             SysClone(t, flags, stack)
    \/ RaiseSignal(t, SIGCHLD)
    \/ SysSigaction(t, SIGCHLD, PlainAction)
    \/ UserPush(t)
    \/ UserRun(t)

CloneNext == \E t \in Ids : CloneStep(t) \/ CloneCall(t)

CloneSpec == Init /\ [][CloneNext]_vars

\* The positions of clone_proc and clone_thread.
ClonePcs == {"clone_register", "clone_push", "clone_spawn", "add_module",
             "add_thread"}

\* C31: the first trap frame of a task made by clone (thread or process) is
\* the caller's frame at the time of the call, but for the result register,
\* which is 0, the program counter, which is 4 further, and the stack
\* pointer, which is the stack argument when that is not 0.
C31_ChildTrapState ==
    [][\A t \in Ids :
          /\ \A flags \in LifeFlags : \A stack \in CloneStacks :
                (SysClone(t, flags, stack) /\ "CLONE_THREAD" \in flags)
                  => /\ pc'[nextId] = "user"
                     /\ tf'[nextId] =
                          [sepc |-> tf[t].sepc + 4, a0 |-> 0,
                           a1 |-> tf[t].a1, a2 |-> tf[t].a2,
                           ra |-> tf[t].ra,
                           sp |-> IF stack # 0 THEN stack ELSE tf[t].sp]
          /\ pc[t] \in ClonePcs => tf'[t] = tf[t]
          /\ CloneSpawn(t)
                => /\ pc'[loc[t].child] = "user"
                   /\ tf'[loc[t].child] =
                        [sepc |-> tf[t].sepc + 4, a0 |-> 0,
                         a1 |-> tf[t].a1, a2 |-> tf[t].a2,
                         ra |-> tf[t].ra,
                         sp |-> IF loc[t].stack # 0 THEN loc[t].stack
                                ELSE tf[t].sp]
      ]_vars

\* A process was cloned with a stack argument from inside a handler, where
\* the caller's result register holds the signal number.
C31_ChildOnNewStack ==
    \E t \in Ids :
        /\ pc[t] = "add_module" /\ loc[t].op = "clone_proc"
        /\ loc[t].stack # 0
        /\ tf[t].a0 = SIGCHLD /\ tf[t].sepc = HandlerEntry
        /\ tf[loc[t].child].a0 = 0
        /\ tf[loc[t].child].sepc = HandlerEntry + 4
        /\ tf[loc[t].child].sp = loc[t].stack

\* ---------------------------------------------------------------------
\* Job-control signals: processes that are sent stop and continue signals.
\* ---------------------------------------------------------------------

\* The signals that become pending: stop signals, the continue signal, and
\* one that is ignored by default.
StopSigs == {SIGSTOP, SIGTSTP, SIGCONT, SIGCHLD}

StopStep(t) ==
    \/ CloneRegister(t)
    \/ ClonePush(t)
    \/ CloneSpawn(t)
    \/ AddThreadModule(t)
    \/ AddThreadTable(t)
    \/ Dispatch(t)
    \/ SigIgnoreRestore(t)

StopCall(t) ==
    \/ nextId <= CloneMaxId /\ SysClone(t, {}, 0)
    \/ \E sig \in StopSigs : RaiseSignal(t, sig)

StopNext == \E t \in Ids : StopStep(t) \/ StopCall(t)

StopSpec == Init /\ [][StopNext]_vars

\* C32: a dispatch pass that selects a signal with the default handler whose
\* default disposition is Stop or Continue does not panic the kernel: the
\* thread returns to user space and the other processes keep running.
C32_StopContNotFatal ==
    [][\A t \in Ids :
          (/\ Dispatch(t) /\ DispatchKind(t) = "default"
           /\ DefaultDisposition(find_sig(sigmods[proc[t]][t].sig_set))
                 \in {"Stop", "Cont"})
            => ~panicked'
      ]_vars

\* C33: the threads of one process see one signal action table: the action
\* a dispatch pass of one thread finds for a signal is the action a pass of
\* any other thread of the process finds for it.
C33_SharedActionTable ==
    \A t, u \in Ids :
        (/\ proc[t] \in Ids /\ proc[t] = proc[u]
         /\ {t, u} \subseteq DOMAIN sigmods[proc[t]])
            => \A sig \in HandledSigs :
                  get_action(sigmods[proc[t]][t].sig_handler, sig)
                     = get_action(sigmods[proc[t]][u].sig_handler, sig)

\* ---------------------------------------------------------------------
\* Locks: the lock scopes around the cooperative yields, step by step.
\* ---------------------------------------------------------------------

\* The locks: PID2PROC.inner, and children, threads and signal_module of
\* each process.
RegistryLock == <<"registry", 0>>

ChildrenLock(p) == <<"children", p>>

ThreadsLock(p) == <<"threads", p>>

ModuleLock(p) == <<"signal_module", p>>

\* No task holds a guard of the lock.
Free(l) == \A u \in Ids : l \notin loc[u].guards

\* The guards a task holds after taking a lock.
GuardTaken(guards, l) == guards \cup {l}

\* A guard that lives on after the expression that made it.
GuardKept(guards, l) == guards

\* The guards left when a temporary guard goes out of scope: at the end of
\* the condition of a while, of a for loop, of a statement.
GuardDropped(guards, l) == guards \ {l}

\* The locks the critical section at a task's position takes.
Needed(t) ==
    CASE pc[t] = "exit_thread" -> {ModuleLock(proc[t])}
      [] pc[t] = "exit_remove" -> {ThreadsLock(proc[t])}
      [] pc[t] = "exit_reparent" -> {ChildrenLock(proc[t])}
      [] pc[t] = "exit_unreg" -> {RegistryLock}
      [] pc[t] = "clone_register" -> {RegistryLock}
      [] pc[t] = "clone_push" ->
            IF "CLONE_PARENT" \in loc[t].flags
            THEN {RegistryLock, ChildrenLock(loc[t].pp)}
            ELSE {ChildrenLock(proc[t])}
      [] pc[t] = "add_module" -> {ModuleLock(loc[t].target)}
      [] pc[t] = "add_thread" -> {ThreadsLock(loc[t].target)}
      [] pc[t] \in {"wait_remove", "waitany_remove"} ->
            {ChildrenLock(proc[t])}
      [] pc[t] \in {"wait_time", "waitany_time"} ->
            {ThreadsLock(loc[t].child)}
      [] pc[t] \in {"user", "ret"} ->
            IF is_exited[proc[t]] THEN {} ELSE {ModuleLock(proc[t])}
      [] OTHER -> {}

\* Process::exit: the condition of the barrier loop takes the thread-table
\* lock.
BarrierLock(t) ==
    /\ ~panicked
    /\ pc[t] = "exit_barrier"
    /\ Free(ThreadsLock(proc[t]))
    /\ loc' = [loc EXCEPT ![t].guards = GuardTaken(@, ThreadsLock(proc[t]))]
    /\ pc' = [pc EXCEPT ![t] = "barrier_test"]
    /\ UNCHANGED <<nextId, procVars, mem, heap_current, ustack, proc, tf, panicked,
                   reaped, hist>>

\* Process::exit: len() > 1 is evaluated and the guard of the condition goes
\* out of scope; the loop body or the rest of exit follows.
BarrierTest(t) ==
    /\ ~panicked
    /\ pc[t] = "barrier_test"
    /\ loc' = [loc EXCEPT ![t].guards = GuardDropped(@, ThreadsLock(proc[t]))]
    /\ pc' = [pc EXCEPT ![t] = IF Cardinality(threads[proc[t]]) > 1
                               THEN "exit_yield" ELSE "exit_store"]
    /\ UNCHANGED <<nextId, procVars, mem, heap_current, ustack, proc, tf, panicked,
                   reaped, hist>>

\* Process::exit: yield_now() in the barrier loop.
BarrierYield(t) ==
    /\ ~panicked
    /\ pc[t] = "exit_yield"
    /\ pc' = [pc EXCEPT ![t] = "exit_barrier"]
    /\ UNCHANGED <<nextId, procVars, mem, heap_current, ustack, proc, tf, loc, panicked,
                   reaped, hist>>

\* wait_pid: proc.children.lock() of the search.
WaitFindLock(t) ==
    /\ ~panicked
    /\ pc[t] = "wait_find"
    /\ Free(ChildrenLock(proc[t]))
    /\ loc' = [loc EXCEPT ![t].guards = GuardTaken(@, ChildrenLock(proc[t]))]
    /\ pc' = [pc EXCEPT ![t] = "wait_finding"]
    /\ UNCHANGED <<nextId, procVars, mem, heap_current, ustack, proc, tf, panicked,
                   reaped, hist>>

\* wait_pid: the search; the guard goes out of scope with the statement.
WaitFound(t) ==
    /\ ~panicked
    /\ pc[t] = "wait_finding"
    /\ LET kids == children[proc[t]]
           i == FirstIndex(kids, {loc[t].target})
           left == GuardDropped(loc[t].guards, ChildrenLock(proc[t]))
       IN
       IF i < 0
       THEN /\ loc' = [loc EXCEPT ![t].err = "ECHILD", ![t].guards = left]
            /\ pc' = [pc EXCEPT ![t] = "ret"]
       ELSE /\ loc' = [loc EXCEPT ![t].idx = i, ![t].child = kids[i + 1],
                                  ![t].guards = left]
            /\ pc' = [pc EXCEPT ![t] = "wait_state"]
    /\ UNCHANGED <<nextId, procVars, mem, heap_current, ustack, proc, tf, panicked, reaped,
                   hist>>

\* wait_pid_negative: proc.children.lock() of the for loop.
WaitAnyLock(t) ==
    /\ ~panicked
    /\ pc[t] = "waitany_scan"
    /\ Free(ChildrenLock(proc[t]))
    /\ loc' = [loc EXCEPT ![t].guards = GuardTaken(@, ChildrenLock(proc[t]))]
    /\ pc' = [pc EXCEPT ![t] = "waitany_scanning"]
    /\ UNCHANGED <<nextId, procVars, mem, heap_current, ustack, proc, tf, panicked,
                   reaped, hist>>

\* wait_pid_negative: the for loop; its guard goes out of scope with it.
WaitAnyScanned(t) ==
    /\ ~panicked
    /\ pc[t] = "waitany_scanning"
    /\ LET kids == children[proc[t]]
           i == FirstIndex(kids, {c \in Ids : Exited(c)})
           left == GuardDropped(loc[t].guards, ChildrenLock(proc[t]))
       IN
       IF Len(kids) = 0
       THEN /\ loc' = [loc EXCEPT ![t].err = "ECHILD", ![t].guards = left]
            /\ pc' = [pc EXCEPT ![t] = "ret"]
       ELSE IF i < 0
       THEN /\ loc' = [loc EXCEPT ![t].guards = left]
            /\ pc' = [pc EXCEPT ![t] = "wait_yield"]
       ELSE /\ loc' = [loc EXCEPT ![t].idx = i, ![t].found = kids[i + 1],
                                  ![t].guards = left]
            /\ pc' = [pc EXCEPT ![t] = "waitany_remove"]
    /\ UNCHANGED <<nextId, procVars, mem, heap_current, ustack, proc, tf, panicked, reaped,
                   hist>>

\* The steps inside the kernel: a critical section that is one step runs
\* when the locks it takes are free.
LockStep(t) ==
    \/ BarrierLock(t)
    \/ BarrierTest(t)
    \/ BarrierYield(t)
    \/ WaitFindLock(t)
    \/ WaitFound(t)
    \/ WaitAnyLock(t)
    \/ WaitAnyScanned(t)
    \/ WaitState(t)
    \/ WaitCode(t)
    \/ WaitAnyCode(t)
    \/ WaitYield(t)
    \/ ExitMark(t)
    \/ ExitStore(t)
    \/ /\ \A l \in Needed(t) : Free(l)
       /\ \/ ExitThreadModule(t)
          \/ ExitThreadRemove(t)
          \/ ExitReparent(t)
          \/ ExitUnregister(t)
          \/ CloneRegister(t)
          \/ ClonePush(t)
          \/ CloneSpawn(t)
          \/ AddThreadModule(t)
          \/ AddThreadTable(t)
          \/ WaitRemove(t)
          \/ WaitTime(t)
          \/ WaitAnyRemove(t)
          \/ WaitAnyTime(t)
          \/ Dispatch(t)

LockNext == \E t \in Ids : LockStep(t) \/ FairCall(t)

LockSpec == Init /\ [][LockNext]_vars

\* The positions of the cooperative yields.
YieldPcs == {"exit_yield", "wait_yield"}

\* C34: a thread at a cooperative yield (the exit barrier loop, the retry
\* loop of a blocking wait) holds none of the registry lock, the children
\* lock, the thread-table lock and the signal-module lock.
C34_NoLockAcrossYield ==
    \A t \in Ids : pc[t] \in YieldPcs => loc[t].guards = {}

\* The main thread yields in the exit barrier while a sibling is about to
\* take the thread-table lock to leave, and a thread of another process
\* yields in a blocking wait.
C34_YieldWhileSiblingLeaves ==
    \E t, u, w \in Ids :
        /\ pc[t] = "exit_yield"
        /\ u # t /\ proc[u] = proc[t] /\ pc[u] = "exit_remove"
        /\ Free(ThreadsLock(proc[t]))
        /\ pc[w] = "wait_yield"

\* ---------------------------------------------------------------------
\* brk: threads and processes that move the break of their heap.
\* ---------------------------------------------------------------------

\* The lock of an address-space object.
AspaceLock(a) == <<"aspace", a>>

\* VirtAddr::align_up_4k
AlignUp4k(x) == ((x + 4095) \div 4096) * 4096

\* The addresses asked for: 0, one below the heap, the bottom of the heap
\* (the break of a new process), addresses above it within a page and
\* pages further.
BrkAddrs == {0, 4096, BRK_BOTTOM, BRK_BOTTOM + 100, BRK_BOTTOM + 8192}

\* sys_brk(addr): the break and the bottom are loaded; 0 asks for the
\* break, an address below the bottom is refused.
SysBrk(t, addr) ==
    /\ ~panicked
    /\ pc[t] = "user"
    /\ LET brk == heap_current[proc[t]]
           call == [NoLoc EXCEPT !.op = "brk", !.addr = addr, !.brk = brk]
       IN
       IF addr = 0
       THEN /\ loc' = [loc EXCEPT ![t] = [call EXCEPT !.ret = brk]]
            /\ pc' = [pc EXCEPT ![t] = "ret"]
       ELSE IF addr < BRK_BOTTOM
       THEN /\ loc' = [loc EXCEPT ![t] = [call EXCEPT !.ret = -1]]
            /\ pc' = [pc EXCEPT ![t] = "ret"]
       ELSE /\ loc' = [loc EXCEPT ![t] = call]
            /\ pc' = [pc EXCEPT ![t] = "brk_lock"]
    /\ UNCHANGED <<nextId, procVars, mem, heap_current, ustack, proc, tf,
                   panicked, reaped, hist>>

\* sys_brk: let mut aspace = proc.aspace.lock().
BrkLock(t) ==
    /\ ~panicked
    /\ pc[t] = "brk_lock"
    /\ Free(AspaceLock(aspace[proc[t]]))
    /\ loc' = [loc EXCEPT ![t].guards =
                  GuardTaken(@, AspaceLock(aspace[proc[t]]))]
    /\ pc' = [pc EXCEPT ![t] = "brk_resize"]
    /\ UNCHANGED <<nextId, procVars, mem, heap_current, ustack, proc, tf,
                   panicked, reaped, hist>>

\* sys_brk returns: the guard of the address space goes out of scope.
BrkReturn(t, value) ==
    /\ loc' = [loc EXCEPT
                 ![t].ret = value,
                 ![t].guards = GuardDropped(@, AspaceLock(aspace[proc[t]]))]
    /\ pc' = [pc EXCEPT ![t] = "ret"]
    /\ UNCHANGED panicked

\* sys_brk under the lock: below the break the range is unmapped (unmap may
\* fail); otherwise alloc_range_lazy maps the new range, and it takes the
\* lock of the address space itself.  A task that takes a lock it holds
\* waits for itself for ever, or the lock panics.  Then the break is
\* stored and returned.
BrkResize(t) ==
    /\ ~panicked
    /\ pc[t] = "brk_resize"
    /\ LET p == proc[t]
           addr == loc[t].addr
           own == AspaceLock(aspace[p])
           start == AlignUp4k(loc[t].brk)
           end == AlignUp4k(addr)
       IN
       IF addr < loc[t].brk
       THEN \E ok \in BOOLEAN :
               /\ BrkReturn(t, IF ok THEN addr ELSE -1)
               /\ heap_current' = IF ok THEN [heap_current EXCEPT ![p] = addr]
                                  ELSE heap_current
       ELSE IF start > end
       THEN /\ BrkReturn(t, addr)
            /\ heap_current' = [heap_current EXCEPT ![p] = addr]
       ELSE IF own \in loc[t].guards
       THEN /\ \/ /\ pc' = [pc EXCEPT ![t] = "brk_blocked"]
                  /\ UNCHANGED panicked
               \/ /\ Panic
                  /\ UNCHANGED pc
            /\ UNCHANGED <<loc, heap_current>>
       ELSE \E ok \in BOOLEAN :
               /\ BrkReturn(t, IF ok THEN addr ELSE -1)
               /\ heap_current' = IF ok THEN [heap_current EXCEPT ![p] = addr]
                                  ELSE heap_current
    /\ UNCHANGED <<nextId, procVars, mem, ustack, proc, tf, reaped, hist>>

BrkStep(t) ==
    \/ BrkLock(t)
    \/ BrkResize(t)
    \/ CloneRegister(t)
    \/ ClonePush(t)
    \/ CloneSpawn(t)
    \/ AddThreadModule(t)
    \/ AddThreadTable(t)
    \/ Dispatch(t)

BrkCall(t) ==
    \/ \E addr \in BrkAddrs : SysBrk(t, addr)
    \/ /\ nextId <= CloneMaxId
       /\ \E flags \in {{}, {"CLONE_VM", "CLONE_THREAD"}} :
             SysClone(t, flags, 0)

BrkNext == \E t \in Ids : BrkStep(t) \/ BrkCall(t)

BrkSpec == Init /\ [][BrkNext]_vars

\* C35: a brk to an address at or above the break and not below the heap
\* bottom takes the address-space lock, maps the range, stores the address
\* as heap_current, releases the lock and returns the address; it never
\* takes the address-space lock while it holds it.  A brk of 0 returns the
\* break and one below the heap bottom returns -1, and both leave
\* heap_current as it was.
C35_BrkCompletes ==
    /\ [](\A t \in Ids :
            /\ pc[t] # "brk_blocked"
            /\ ~(panicked /\ pc[t] = "brk_resize")
            /\ (pc[t] = "ret" /\ loc[t].op = "brk")
                  => /\ loc[t].guards = {}
                     /\ loc[t].addr = 0 => loc[t].ret = loc[t].brk
                     /\ (0 < loc[t].addr /\ loc[t].addr < BRK_BOTTOM)
                           => loc[t].ret = -1
                     /\ loc[t].addr >= BRK_BOTTOM => loc[t].ret = loc[t].addr)
    /\ [][\A t \in Ids : \A addr \in BrkAddrs :
            (SysBrk(t, addr) /\ addr < BRK_BOTTOM)
                => heap_current' = heap_current
         ]_vars

\* C36: when a task made by clone reaches the signal dispatcher or
\* exit_thread, its signal module and its entry in the thread table of its
\* process exist: the dispatcher's lookup of the module and exit_thread's
\* removal from the thread table do not fail.
C36_RegisteredBeforeRunning ==
    [][\A t \in Ids :
          /\ Dispatch(t) => (is_exited[proc[t]] \/ t \in DOMAIN sigmods[proc[t]])
          /\ ExitThreadRemove(t) => t \in threads[proc[t]]
          /\ (Dispatch(t) \/ ExitThreadRemove(t)) => ~panicked'
      ]_vars

\* C37: a send of a signal to a pid fails with not-found or records the
\* signal in the module of the main thread of the process; no step of it
\* panics, neither on a process that is registered while its main thread
\* is inside exit, nor in the forwarding of a terminating thread that is
\* not the main thread.
C37_SendTotal ==
    [][\A t \in Ids :
          (SendLookup(t) \/ SendMain(t) \/ SendAdd(t))
            => /\ ~panicked'
               /\ SendAdd(t) =>
                     loc[t].sig \in
                        (sigmods'[loc[t].target][Main(loc[t].target)].sig_set.pending
                         \cup sigmods'[loc[t].target][Main(loc[t].target)].sig_set.mask)
      ]_vars

\* C38: once the exit of a process has stored the exit code and removed the
\* process from the registry, its thread table holds no thread other than
\* the main thread, whatever its other threads were doing (a clone with
\* CLONE_THREAD that has spawned the task and not yet added it included).
C38_ExitFinal ==
    \A p \in Ids :
        (proc[p] = p /\ pc[p] = "dead") => threads[p] \subseteq {Main(p)}

\* C39: a process made by clone that runs and has not been reaped is in the
\* children list of the process its parent pid names and in no other list,
\* also when it was made with CLONE_PARENT by a caller whose parent is not
\* registered and when its parent pid was set to 1 by reparenting.
C39_ParentChildConsistent ==
    \A Q \in Ids :
        (/\ origin[Q].creator # 0 /\ pc[Q] # "none"
         /\ \A P \in Ids : Q \notin reaped[P])
            => {P \in Ids : Q \in Range(children[P])} = {ppid[Q]}

\* C40: a sigreturn of a thread that has no saved trap frame returns -1 and
\* leaves the live trap frame of the thread and its signal module as they
\* were.
C40_SigreturnIdle ==
    [][\A t \in Ids :
          (/\ pc[t] = "user"
           /\ t \in DOMAIN sigmods[proc[t]]
           /\ ~sigmods[proc[t]][t].last_trap_frame.some
           /\ SysSigreturn(t))
            => /\ ~panicked'
               /\ loc'[t].ret = -1
               /\ tf'[t] = tf[t]
               /\ sigmods'[proc[t]][t] = sigmods[proc[t]][t]
      ]_vars

\* A thread with a handler installed, a signal pending and blocked, and an
\* alternate stack, which has moved its stack pointer, called sigreturn
\* with no frame saved and got -1.
C40_IdleSigreturnSeen ==
    \E t \in Ids :
        /\ pc[t] = "ret" /\ loc[t].op = "sigreturn" /\ loc[t].ret = -1
        /\ t \in DOMAIN sigmods[proc[t]]
        /\ ~sigmods[proc[t]][t].last_trap_frame.some
        /\ SIGCHLD \in sigmods[proc[t]][t].sig_set.pending
        /\ SIGCHLD \in sigmods[proc[t]][t].sig_set.mask
        /\ get_action(sigmods[proc[t]][t].sig_handler, SIGCHLD) = InfoAction
        /\ tf[t].sp # BootFrame.sp

====
